---- MODULE Spec2Model ----
(***************************************************************************)
(* fire-enrich: the VirtualTable component (components/virtual-table.tsx)  *)
(* and the usePerformanceMonitoring hook (the performance-monitoring       *)
(* module), as state machines.                                             *)
(*                                                                         *)
(* Every handler runs to completion before the next one starts (one        *)
(* JavaScript event loop), so each handler is one action.  React state     *)
(* (useState / useRef / useMemo) is the state of the machine; the props of *)
(* the component and the arguments of the hook's functions are inputs.     *)
(***************************************************************************)
EXTENDS Integers, Sequences, FiniteSets, TLC

(***************************************************************************)
(* Bounds of the model.                                                    *)
(***************************************************************************)
\* rows of the dataset in the interactive table specification
MaxRows == 2
\* rows of the dataset in the sorting specification
MaxSortRows == 7
\* operations of the monitoring hook in one run
MaxCalls == 4
\* rows of the dataset in the ordering specification
MaxOrderRows == 3

VARIABLES
    \* ---- VirtualTable ----
    rows,                  \* prop rows: CSVRow[]
    emailColumn,           \* prop emailColumn ("" when not given)
    results,               \* prop results: Map<number, RowEnrichmentResult>
    currentProcessingRow,  \* prop currentProcessingRow (-1: none)
    sortConfig,            \* useState: {key, direction} | null
    selectedRows,          \* useState: Set<number>
    sortedData,            \* useMemo: the sorted copy of rows
    scrolledTo,            \* the index the auto-scroll effect of the last step
                           \* passed to listRef.current.scrollToItem (-1: no call)
    lastEvent,             \* the click on a button of a row or of the footer, or
                           \* the checkbox events, that the last step handled,
                           \* with the callback of the host it invoked
    engine,                \* the JavaScript engine's Array.prototype.sort
    \* ---- usePerformanceMonitoring ----
    metrics,               \* useState: PerformanceMetrics
    alerts,                \* useState: string[]
    frameCountRef,         \* useRef(0)
    lastFrameTimeRef,      \* useRef(Date.now())
    pendingFrames,         \* callbacks requested with requestAnimationFrame
                           \* (measureFrameRate) that have not run yet
    now,                   \* the clock, Date.now() in ms
    calls,                 \* operations of the hook so far (bounded by MaxCalls)
    lastCall,              \* the last operation, with the state it started from
    mounted,               \* the component that uses the hook is mounted
    \* ---- PerformanceIndicator ----
    indicator,             \* useState: {memoryUsage, renderTime, rowsProcessed}
    \* ---- ResponsiveLayout ----
    layout                 \* props currentStep and showSidebar, and useState
                           \* sidebarOpen, sidebarCollapsed, settingsOpen

tableVars == <<rows, emailColumn, results, currentProcessingRow, sortConfig,
               selectedRows, sortedData, scrolledTo, lastEvent, engine>>

monitorVars == <<metrics, alerts, frameCountRef, lastFrameTimeRef,
                 pendingFrames, now, calls, lastCall, mounted, indicator,
                 layout>>

vars == <<rows, emailColumn, results, currentProcessingRow, sortConfig,
          selectedRows, sortedData, scrolledTo, lastEvent, engine,
          metrics, alerts, frameCountRef, lastFrameTimeRef, pendingFrames, now,
          calls, lastCall, mounted, indicator, layout>>

(***************************************************************************)
(* JavaScript values.  A value is a record [t, n, s]: its type, its number *)
(* when it is a number, its UTF-16 code units when it is a string.         *)
(***************************************************************************)
JsUndefined == [t |-> "undefined", n |-> 0, s |-> <<>>]
JsNum(k) == [t |-> "number", n |-> k, s |-> <<>>]
JsStr(codes) == [t |-> "string", n |-> 0, s |-> codes]
EmptyString == JsStr(<<>>)

\* a < b on strings: by code units, a proper prefix first
RECURSIVE StrLess(_, _)
StrLess(a, b) ==
    IF b = <<>> THEN FALSE
    ELSE IF a = <<>> THEN TRUE
    ELSE IF a[1] # b[1] THEN a[1] < b[1]
    ELSE StrLess(Tail(a), Tail(b))

\* StringToNumber on strings of letters and decimal digits: "" is 0, a string
\* of digits is its value, anything else is NaN
RECURSIVE DigitsValue(_, _)
DigitsValue(codes, acc) ==
    IF codes = <<>> THEN acc
    ELSE DigitsValue(Tail(codes), 10 * acc + (codes[1] - 48))

NaN == [nan |-> TRUE, n |-> 0]

ToNumber(v) ==
    IF v.t = "number" THEN [nan |-> FALSE, n |-> v.n]
    ELSE IF v.t = "string"
      THEN IF \A i \in 1..Len(v.s) : v.s[i] \in 48..57
             THEN [nan |-> FALSE, n |-> DigitsValue(v.s, 0)]
             ELSE NaN
    ELSE NaN

\* the relational operator  a < b  (two strings compare as strings, anything
\* else as numbers, and a comparison with NaN is false)
JsLess(a, b) ==
    IF a.t = "string" /\ b.t = "string" THEN StrLess(a.s, b.s)
    ELSE LET x == ToNumber(a)
             y == ToNumber(b)
         IN  ~x.nan /\ ~y.nan /\ x.n < y.n

\* ToBoolean
Truthy(v) ==
    IF v.t = "number" THEN v.n # 0
    ELSE IF v.t = "string" THEN v.s # <<>>
    ELSE FALSE

\* v || ''
OrEmpty(v) == IF Truthy(v) THEN v ELSE EmptyString

(***************************************************************************)
(* The dataset.  A row is an object (its identity obj) with its cells in   *)
(* column order.                                                           *)
(***************************************************************************)
NameAl == <<65, 108>>
NameBo == <<66, 111>>
EmailA == <<97, 64, 120, 46, 99, 111, 109>>
EmailB == <<98, 64, 120, 46, 99, 111, 109>>

CSVRow(i) ==
    [obj |-> i,
     cells |-> <<<<"name", JsStr(IF i % 2 = 0 THEN NameAl ELSE NameBo)>>,
                 <<"email", JsStr(IF i % 2 = 0 THEN EmailB ELSE EmailA)>>>>]

Dataset(n) == [i \in 1..n |-> CSVRow(i - 1)]

\* a row of the file that has no cell in the column email
CSVRowWithoutEmail(i) ==
    [obj |-> i,
     cells |-> <<<<"name", JsStr(IF i % 2 = 0 THEN NameAl ELSE NameBo)>>>>]

\* the datasets of n rows in which any of the rows lack the email cell
SparseDatasets(n) ==
    {[i \in 1..n |-> IF i \in complete THEN CSVRow(i - 1)
                     ELSE CSVRowWithoutEmail(i - 1)] :
        complete \in SUBSET (1..n)}

\* the enrichment fields of the run (prop fields)
FieldNames == {"score"}

\* row[column]
GetCell(row, column) ==
    IF \E i \in 1..Len(row.cells) : row.cells[i][1] = column
      THEN row.cells[CHOOSE i \in 1..Len(row.cells) :
                        /\ row.cells[i][1] = column
                        /\ \A j \in 1..(i - 1) : row.cells[j][1] # column][2]
      ELSE JsUndefined

\* Object.values(row)[0]
FirstValue(row) == IF Len(row.cells) > 0 THEN row.cells[1][2] ELSE JsUndefined

\* rows.indexOf(row): the first position (from 0) holding this object, or -1
IndexOf(rs, row) ==
    IF \E i \in 1..Len(rs) : rs[i] = row
      THEN (CHOOSE i \in 1..Len(rs) :
                /\ rs[i] = row
                /\ \A j \in 1..(i - 1) : rs[j] # row) - 1
      ELSE -1

(***************************************************************************)
(* The result store.  A Map entry is [present, status, enrichments,        *)
(* confidence]: enrichments[f] is enrichments[f]?.value and confidence[f]  *)
(* is enrichments[f]?.confidence, a double [t |-> "double", dbl |-> d] or  *)
(* undefined.  results.get(k) of a key without an entry is undefined       *)
(* (NoResult).  A status "" is a result object without a status.           *)
(***************************************************************************)
NoEnrichments == [f \in FieldNames |-> JsUndefined]

NoResult ==
    [present |-> FALSE, status |-> "", enrichments |-> NoEnrichments,
     confidence |-> NoEnrichments]

RowEnrichmentResult(status, score) ==
    [present |-> TRUE, status |-> status,
     enrichments |-> [f \in FieldNames |-> score],
     confidence |-> NoEnrichments]

ResultsGet(res, k) == IF k \in DOMAIN res THEN res[k] ELSE NoResult

EmptyResults(n) == [k \in 0..(n - 1) |-> NoResult]

NoSort == [key |-> "", direction |-> ""]

\* result.status || 'completed'
StatusOf(result) == IF result.status = "" THEN "completed" ELSE result.status

(***************************************************************************)
(* The stream consumer, which owns the result store, is not part of the    *)
(* component: it is modelled from the specification of the RowResult       *)
(* lifecycle (pending -> processing -> completed | error | skipped, never  *)
(* regressing, immutable once terminal; a stale update is ignored).        *)
(***************************************************************************)
TerminalStatuses == {"completed", "error", "skipped"}

StatusRank(status) ==
    IF status = "pending" THEN 0 ELSE IF status = "processing" THEN 1 ELSE 2

\* a consumer that applies every update (the last write wins)
ApplyUpdateLastWrite(res, rowIndex, result) ==
    [res EXCEPT ![rowIndex] = result]

\* the store after the consumer has handled the update (rowIndex, result)
ApplyUpdate(res, rowIndex, result) ==
    LET stored == ResultsGet(res, rowIndex)
    IN  IF stored.present
            /\ (\/ StatusOf(stored) \in TerminalStatuses
                \/ StatusRank(StatusOf(result)) < StatusRank(StatusOf(stored)))
          THEN res
          ELSE [res EXCEPT ![rowIndex] = result]

(***************************************************************************)
(* sortedData: the comparator of lines 87-107.                             *)
(***************************************************************************)
SortValue(row, rs, res, cfg, col) ==
    IF cfg.key = "email"
      THEN IF col # "" THEN GetCell(row, col) ELSE FirstValue(row)
      ELSE OrEmpty(ResultsGet(res, IndexOf(rs, row)).enrichments[cfg.key])

\* lines 104-106
CompareValues(aValue, bValue, cfg) ==
    IF JsLess(aValue, bValue) THEN (IF cfg.direction = "asc" THEN -1 ELSE 1)
    ELSE IF JsLess(bValue, aValue) THEN (IF cfg.direction = "asc" THEN 1 ELSE -1)
    ELSE 0

\* the comparator (a, b) => ...
CompareRows(a, b, rs, res, cfg, col) ==
    CompareValues(SortValue(a, rs, res, cfg, col),
                  SortValue(b, rs, res, cfg, col), cfg)

\* the comparator's results on the positions of rs: c[i][j] is
\* CompareRows(rs[i], rs[j], ...), the sort value of each row taken once
Comparator(rs, res, cfg, col) ==
    LET value == [i \in 1..Len(rs) |-> SortValue(rs[i], rs, res, cfg, col)]
    IN  [i \in 1..Len(rs) |-> [j \in 1..Len(rs) |->
            CompareValues(value[i], value[j], cfg)]]

(***************************************************************************)
(* Array.prototype.sort(comparefn) on an array of fewer than 64 elements.  *)
(* The language fixes the result only for a consistent comparator: for any *)
(* other it is the engine's.  Two engines are modelled, on arrays a of     *)
(* positions with c[i][j] = comparefn(element i, element j):               *)
(*   "binary": the initial run is found (a strictly descending one is      *)
(*             reversed), the rest is inserted by binary search (V8);      *)
(*   "linear": straight insertion sort.                                    *)
(***************************************************************************)
Engines == {"binary", "linear"}

RECURSIVE CountRun(_, _, _, _)
CountRun(a, c, descending, k) ==
    IF k = Len(a) THEN k
    ELSE LET order == c[a[k + 1]][a[k]]
         IN  IF (descending /\ order >= 0) \/ (~descending /\ order < 0) THEN k
             ELSE CountRun(a, c, descending, k + 1)

\* left and right count from 0, as in the engine
RECURSIVE BinarySearch(_, _, _, _, _)
BinarySearch(a, c, pivot, left, right) ==
    IF left >= right THEN left
    ELSE LET mid == left + ((right - left) \div 2)
         IN  IF c[pivot][a[mid + 1]] < 0
               THEN BinarySearch(a, c, pivot, left, mid)
               ELSE BinarySearch(a, c, pivot, mid + 1, right)

\* a with the element at position start (from 0) moved to position left
MoveTo(a, start, left) ==
    [i \in 1..Len(a) |->
        IF i <= left THEN a[i]
        ELSE IF i = left + 1 THEN a[start + 1]
        ELSE IF i <= start + 1 THEN a[i - 1]
        ELSE a[i]]

RECURSIVE BinaryInsertionSort(_, _, _)
BinaryInsertionSort(a, c, start) ==
    IF start >= Len(a) THEN a
    ELSE BinaryInsertionSort(
             MoveTo(a, start, BinarySearch(a, c, a[start + 1], 0, start)),
             c, start + 1)

BinarySort(a, c) ==
    IF Len(a) < 2 THEN a
    ELSE LET descending == c[a[2]][a[1]] < 0
             run == CountRun(a, c, descending, 2)
             b == IF descending
                    THEN [i \in 1..Len(a) |->
                             IF i <= run THEN a[run + 1 - i] ELSE a[i]]
                    ELSE a
         IN  BinaryInsertionSort(b, c, run)

\* the position (from 0) after which item is put: the scan goes down from j
RECURSIVE ScanDown(_, _, _, _)
ScanDown(a, c, item, j) ==
    IF j < 0 THEN j
    ELSE IF c[a[j + 1]][item] <= 0 THEN j
    ELSE ScanDown(a, c, item, j - 1)

RECURSIVE LinearInsertionSort(_, _, _)
LinearInsertionSort(a, c, i) ==
    IF i >= Len(a) THEN a
    ELSE LinearInsertionSort(
             MoveTo(a, i, ScanDown(a, c, a[i + 1], i - 1) + 1), c, i + 1)

ArraySort(a, c, eng) ==
    IF eng = "binary" THEN BinarySort(a, c) ELSE LinearInsertionSort(a, c, 1)

\* useMemo(() => sortConfig ? [...rows].sort(compare) : rows)
SortedData(rs, res, cfg, col, eng) ==
    IF cfg = NoSort THEN rs
    ELSE LET order == ArraySort([i \in 1..Len(rs) |-> i],
                                Comparator(rs, res, cfg, col), eng)
         IN  [i \in 1..Len(rs) |-> rs[order[i]]]

(***************************************************************************)
(* Status derivation and the Row renderer.                                 *)
(***************************************************************************)
\* a derivation that asks the marker first
RowStatusMarkerFirst(res, marker, rowIndex) ==
    LET result == ResultsGet(res, rowIndex)
    IN  IF marker = rowIndex THEN "processing"
        ELSE IF ~result.present THEN "pending"
        ELSE StatusOf(result)

\* getRowStatus(rowIndex), with the props it reads: res is results and
\* marker is currentProcessingRow
RowStatus(res, marker, rowIndex) ==
    LET result == ResultsGet(res, rowIndex)
    IN  IF ~result.present
          THEN IF marker = rowIndex THEN "processing" ELSE "pending"
          ELSE StatusOf(result)

getRowStatus(rowIndex) == RowStatus(results, currentProcessingRow, rowIndex)

\* the position in the list taken for the position in the dataset
OriginalIndexOfList(index) == index

\* originalIndex = rows.indexOf(sortedData[index]) of the row shown at
\* position index (from 0) of the list
OriginalIndex(index) == IndexOf(rows, sortedData[index + 1])

\* isSelected = selectedRows.has(originalIndex)
IsSelected(index) == OriginalIndex(index) \in selectedRows

\* Row({index}): what the row at position index of the list shows
Row(index) ==
    [originalIndex |-> OriginalIndex(index),
     status |-> getRowStatus(OriginalIndex(index)),
     isSelected |-> IsSelected(index),
     isProcessing |-> currentProcessingRow = OriginalIndex(index)]

(***************************************************************************)
(* Inputs of the interactive table.                                        *)
(***************************************************************************)
\* the RowEnrichmentResult objects the stream delivers
ResultInputs ==
    {RowEnrichmentResult("pending", JsUndefined),
     RowEnrichmentResult("processing", JsUndefined),
     RowEnrichmentResult("completed", JsNum(42)),
     RowEnrichmentResult("error", JsUndefined),
     RowEnrichmentResult("skipped", JsUndefined),
     RowEnrichmentResult("", JsNum(7))}

\* the keys of the sortable columns: the identity column and the fields
SortableKeys == {"email"} \cup FieldNames

\* columns: the identity column, one column per field, the actions column
Columns ==
    {[key |-> "email", sortable |-> TRUE]}
        \cup {[key |-> name, sortable |-> TRUE] : name \in FieldNames}
        \cup {[key |-> "actions", sortable |-> FALSE]}

RowIndexes == 0..(Len(rows) - 1)

\* no button of a row or of the footer was clicked, no callback invoked
NoEvent == [event |-> "none", callback |-> "none", arguments |-> <<>>]

(***************************************************************************)
(* The auto-scroll effect (lines 305-309), which React runs after a render *)
(* in which currentProcessingRow differs from the render before: it calls  *)
(* listRef.current.scrollToItem(currentProcessingRow, 'center') when the   *)
(* marker is not negative.  The value is the index passed, -1 for no call. *)
(***************************************************************************)
\* an effect without the dependency list, run after every render
AutoScrollEveryRender(previous, marker) == IF marker >= 0 THEN marker ELSE -1

AutoScroll(previous, marker) ==
    IF marker # previous /\ marker >= 0 THEN marker ELSE -1

(***************************************************************************)
(* Operations of the table.                                                *)
(***************************************************************************)
\* an update of the stream arrives: the consumer handles it and the table is
\* rendered with the store
SetResults(rowIndex, result) ==
    /\ results' = ApplyUpdate(results, rowIndex, result)
    /\ UNCHANGED <<rows, emailColumn, currentProcessingRow, sortConfig,
                   selectedRows, engine>>
    /\ UNCHANGED monitorVars
    /\ lastEvent' = NoEvent
    /\ sortedData' = SortedData(rows, results', sortConfig, emailColumn, engine)
    /\ scrolledTo' = AutoScroll(currentProcessingRow, currentProcessingRow')

\* the parent renders the table with another currentProcessingRow
SetCurrentProcessingRow(marker) ==
    /\ marker # currentProcessingRow
    /\ currentProcessingRow' = marker
    /\ UNCHANGED <<rows, emailColumn, results, sortConfig, selectedRows,
                   sortedData, engine>>
    /\ UNCHANGED monitorVars
    /\ lastEvent' = NoEvent
    /\ scrolledTo' = AutoScroll(currentProcessingRow, currentProcessingRow')

\* a handleSort that also drops the selection
handleSortClearing(key) ==
    /\ sortConfig' =
          IF sortConfig.key = key
            THEN [key |-> key,
                  direction |-> IF sortConfig.direction = "asc" THEN "desc" ELSE "asc"]
            ELSE [key |-> key, direction |-> "asc"]
    /\ sortedData' = SortedData(rows, results, sortConfig', emailColumn, engine)
    /\ selectedRows' = {}
    /\ UNCHANGED <<rows, emailColumn, results, currentProcessingRow, engine>>
    /\ UNCHANGED monitorVars
    /\ lastEvent' = NoEvent
    /\ scrolledTo' = AutoScroll(currentProcessingRow, currentProcessingRow')

\* a sort that a third click on the same header switches off
setSortConfigCycling(current, key) ==
    IF current.key = key
      THEN IF current.direction = "asc" THEN [key |-> key, direction |-> "desc"]
           ELSE NoSort
      ELSE [key |-> key, direction |-> "asc"]

\* the updater handleSort passes to setSortConfig (lines 111-119)
setSortConfig(current, key) ==
    IF current.key = key
      THEN [key |-> key,
            direction |-> IF current.direction = "asc" THEN "desc" ELSE "asc"]
      ELSE [key |-> key, direction |-> "asc"]

handleSort(key) ==
    /\ sortConfig' = setSortConfig(sortConfig, key)
    /\ UNCHANGED <<rows, emailColumn, results, currentProcessingRow,
                   selectedRows, engine>>
    /\ UNCHANGED monitorVars
    /\ lastEvent' = NoEvent
    /\ sortedData' = SortedData(rows, results, sortConfig', emailColumn, engine)
    /\ scrolledTo' = AutoScroll(currentProcessingRow, currentProcessingRow')

\* a header cell that sorts whether or not its column is sortable
HeaderClickAny(column) == handleSort(column.key)

\* onClick of a header cell: column.sortable && handleSort(column.key); a
\* click that does nothing renders nothing
HeaderClick(column) ==
    IF column.sortable
      THEN handleSort(column.key)
      ELSE /\ scrolledTo' = -1
           /\ UNCHANGED <<rows, emailColumn, results, currentProcessingRow,
                          sortConfig, selectedRows, sortedData, engine>>
           /\ UNCHANGED monitorVars
           /\ lastEvent' = NoEvent

\* the user scrolls the list: the List moves its window itself, the table is
\* not rendered and no effect runs
UserScroll ==
    /\ scrolledTo' = -1
    /\ UNCHANGED <<rows, emailColumn, results, currentProcessingRow, sortConfig,
                   selectedRows, sortedData, engine>>
    /\ UNCHANGED monitorVars
    /\ lastEvent' = NoEvent

\* the store is shared by reference: the consumer writes the update into the
\* Map the table already holds and the table is rendered again; the
\* dependencies [rows, results, sortConfig, emailColumn] of useMemo are the
\* same objects as before, so the memoized sortedData is returned
SetResultsInPlace(rowIndex, result) ==
    /\ results' = ApplyUpdate(results, rowIndex, result)
    /\ UNCHANGED <<rows, emailColumn, currentProcessingRow, sortConfig,
                   selectedRows, sortedData, engine>>
    /\ UNCHANGED monitorVars
    /\ lastEvent' = NoEvent
    /\ scrolledTo' = AutoScroll(currentProcessingRow, currentProcessingRow')

handleRowSelect(rowIndex, selected) ==
    /\ selectedRows' = IF selected THEN selectedRows \cup {rowIndex}
                       ELSE selectedRows \ {rowIndex}
    /\ UNCHANGED <<rows, emailColumn, results, currentProcessingRow, sortConfig,
                   sortedData, engine>>
    /\ UNCHANGED monitorVars
    /\ lastEvent' = NoEvent
    /\ scrolledTo' = AutoScroll(currentProcessingRow, currentProcessingRow')

\* updaters that all start from the selectedRows of the render
setSelectedRowsOfRender(prev, toggles) ==
    IF toggles = <<>> THEN prev
    ELSE LET last == toggles[Len(toggles)]
         IN  IF last[2] THEN prev \cup {last[1]} ELSE prev \ {last[1]}

\* React runs the updaters that handleRowSelect has passed to setSelectedRows
\* since the last render (lines 123-131) in their order, each on the set the
\* one before it returned
RECURSIVE setSelectedRows(_, _)
setSelectedRows(prev, toggles) ==
    IF toggles = <<>> THEN prev
    ELSE LET rowIndex == Head(toggles)[1]
             selected == Head(toggles)[2]
         IN  setSelectedRows(IF selected THEN prev \cup {rowIndex}
                             ELSE prev \ {rowIndex},
                             Tail(toggles))

\* the checkboxes of rows call handleRowSelect(originalIndex, e.target.checked)
\* (line 195) several times before the table is rendered again
handleRowSelectBatch(toggles) ==
    /\ selectedRows' = setSelectedRows(selectedRows, toggles)
    /\ lastEvent' = [event |-> "checkboxes", callback |-> "none",
                     arguments |-> toggles]
    /\ UNCHANGED <<rows, emailColumn, results, currentProcessingRow, sortConfig,
                   sortedData, engine>>
    /\ UNCHANGED monitorVars
    /\ scrolledTo' = AutoScroll(currentProcessingRow, currentProcessingRow')

\* the parent renders the table with another dataset
SetRows(dataset) ==
    /\ dataset # rows
    /\ rows' = dataset
    /\ sortedData' = SortedData(rows', results, sortConfig, emailColumn, engine)
    /\ lastEvent' = NoEvent
    /\ UNCHANGED <<emailColumn, results, currentProcessingRow, sortConfig,
                   selectedRows, engine>>
    /\ UNCHANGED monitorVars
    /\ scrolledTo' = AutoScroll(currentProcessingRow, currentProcessingRow')

\* a click on a button of the actions cell of the displayed row index (lines
\* 241-256): onRowClick?.(originalIndex) or onCopyRow?.(originalIndex), with
\* callbacks that the host has given; the table is not rendered
RowButtonClick(index, button) ==
    /\ lastEvent' = [event |-> "row button", callback |-> button,
                     arguments |-> <<OriginalIndex(index)>>]
    /\ scrolledTo' = -1
    /\ UNCHANGED <<rows, emailColumn, results, currentProcessingRow, sortConfig,
                   selectedRows, sortedData, engine>>
    /\ UNCHANGED monitorVars

\* the buttons of the selection footer (lines 333-338)
FooterButtons == {"Export Selected", "Copy Selected"}

\* a click on a button of the footer, which is rendered when
\* selectedRows.size > 0: the buttons have no onClick, and VirtualTableProps
\* has no callback for them
FooterClick(button) ==
    /\ Cardinality(selectedRows) > 0
    /\ lastEvent' = [event |-> button, callback |-> "none", arguments |-> <<>>]
    /\ scrolledTo' = -1
    /\ UNCHANGED <<rows, emailColumn, results, currentProcessingRow, sortConfig,
                   selectedRows, sortedData, engine>>
    /\ UNCHANGED monitorVars

\* a select-all without the toggle
SelectAllAlways(selection, rs) == 0..(Len(rs) - 1)

\* the set handleSelectAll passes to setSelectedRows
SelectAll(selection, rs) ==
    IF Cardinality(selection) = Len(rs) THEN {} ELSE 0..(Len(rs) - 1)

\* checked of the select-all checkbox of the header (line 270)
SelectAllChecked == Cardinality(selectedRows) = Len(rows) /\ Len(rows) > 0

handleSelectAll ==
    /\ selectedRows' = SelectAll(selectedRows, rows)
    /\ UNCHANGED <<rows, emailColumn, results, currentProcessingRow, sortConfig,
                   sortedData, engine>>
    /\ UNCHANGED monitorVars
    /\ lastEvent' = NoEvent
    /\ scrolledTo' = AutoScroll(currentProcessingRow, currentProcessingRow')

(***************************************************************************)
(* Numbers.  JavaScript numbers are IEEE-754 doubles, and the hook rounds  *)
(* quotients of them, so the arithmetic is modelled bit for bit.  A        *)
(* positive double is [m, e]: the value m * 2^e with 2^52 <= m < 2^53;     *)
(* zero is m = 0.  m is a natural number of three 24-bit limbs, lowest     *)
(* first.                                                                  *)
(***************************************************************************)
LimbBase == 2^24

BigOf(k) == <<k % LimbBase, k \div LimbBase, 0>>

BigToInt(a) == a[1] + a[2] * LimbBase

BigLess(a, b) ==
    \/ a[3] < b[3]
    \/ a[3] = b[3] /\ a[2] < b[2]
    \/ a[3] = b[3] /\ a[2] = b[2] /\ a[1] < b[1]

\* a * c for 0 <= c < 128
BigMulSmall(a, c) ==
    LET p1 == a[1] * c
        p2 == a[2] * c + p1 \div LimbBase
        p3 == a[3] * c + p2 \div LimbBase
    IN  <<p1 % LimbBase, p2 % LimbBase, p3>>

BigDouble(a) == BigMulSmall(a, 2)

\* a - b for a >= b
BigSub(a, b) ==
    LET s1 == a[1] - b[1]
        b1 == IF s1 < 0 THEN 1 ELSE 0
        s2 == a[2] - b[2] - b1
        b2 == IF s2 < 0 THEN 1 ELSE 0
    IN  <<s1 + b1 * LimbBase, s2 + b2 * LimbBase, a[3] - b[3] - b2>>

BigInc(a) ==
    LET s1 == a[1] + 1
        s2 == a[2] + s1 \div LimbBase
    IN  <<s1 % LimbBase, s2 % LimbBase, a[3] + s2 \div LimbBase>>

BigHalf(a) ==
    <<a[1] \div 2 + (a[2] % 2) * (LimbBase \div 2),
      a[2] \div 2 + (a[3] % 2) * (LimbBase \div 2),
      a[3] \div 2>>

BigOdd(a) == a[1] % 2 = 1

RECURSIVE IntBits(_)
IntBits(k) == IF k = 0 THEN 0 ELSE 1 + IntBits(k \div 2)

\* the number of bits of a
BigBits(a) ==
    IF a[3] > 0 THEN 48 + IntBits(a[3])
    ELSE IF a[2] > 0 THEN 24 + IntBits(a[2]) ELSE IntBits(a[1])

\* a * 2^k (k <= 0: a)
BigShl(a, k) ==
    LET w == k \div 24
        h == 2^(24 - (k % 24))
        m == 2^(k % 24)
        b == <<(a[1] % h) * m,
               (a[2] % h) * m + a[1] \div h,
               (a[3] % h) * m + a[2] \div h>>
    IN  IF k <= 0 THEN a
        ELSE IF w = 0 THEN b
        ELSE IF w = 1 THEN <<0, b[1], b[2]>> ELSE <<0, 0, b[1]>>

\* floor(a / 2^k) (k <= 0: a)
BigShr(a, k) ==
    LET w == k \div 24
        h == 2^(24 - (k % 24))
        m == 2^(k % 24)
        b == <<a[1] \div m + (a[2] % m) * h,
               a[2] \div m + (a[3] % m) * h,
               a[3] \div m>>
    IN  IF k <= 0 THEN a
        ELSE IF w = 0 THEN b
        ELSE IF w = 1 THEN <<b[2], b[3], 0>>
        ELSE IF w = 2 THEN <<b[3], 0, 0>> ELSE <<0, 0, 0>>

\* one bit of binary long division: quotient q, doubled remainder r2
DivBit(q, r2, d) ==
    IF BigLess(r2, d) THEN <<BigDouble(q), r2>>
    ELSE <<BigInc(BigDouble(q)), BigSub(r2, d)>>

\* one step on <<quotient, remainder>>
DivStep(s, d) == DivBit(s[1], BigDouble(s[2]), d)

\* k steps (the remainder stays below d)
RECURSIVE DivSteps(_, _, _)
DivNext(t, d, k) == IF BigLess(t[2], d) THEN DivSteps(t, d, k) ELSE t

DivSteps(s, d, k) ==
    IF k = 0 THEN s
    ELSE IF k = 1 THEN DivNext(DivStep(s, d), d, 0)
    ELSE DivNext(DivStep(DivStep(s, d), d), d, k - 2)

DblZero == [m |-> BigOf(0), e |-> 0]

\* m1 * 2^(ex - 52) with m1 of 53 or 54 bits
Renormalise(m1, ex) ==
    IF BigBits(m1) = 54 THEN [m |-> BigHalf(m1), e |-> ex - 51]
    ELSE [m |-> m1, e |-> ex - 52]

\* qr: the 54-bit quotient and the remainder; round to 53 bits, ties to even
RoundBits(qr, ex) ==
    Renormalise(IF BigOdd(qr[1]) /\ (qr[2] # BigOf(0) \/ BigOdd(BigHalf(qr[1])))
                  THEN BigInc(BigHalf(qr[1]))
                  ELSE BigHalf(qr[1]),
                ex)

\* (n2 / d1) * 2^ex for d1 <= n2 < 2 * d1
RoundQuotient(n2, d1, ex) ==
    RoundBits(DivSteps(<<BigOf(1), BigSub(n2, d1)>>, d1, 53), ex)

\* (n1 / d1) * 2^ex for n1, d1 of the same bit length
RoundAligned(n1, d1, ex) ==
    IF BigLess(n1, d1) THEN RoundQuotient(BigDouble(n1), d1, ex - 1)
    ELSE RoundQuotient(n1, d1, ex)

\* bn, bd: the bit lengths of n, d
RoundShifted(n, bn, d, bd, e) ==
    RoundAligned(BigShl(n, bd - bn), BigShl(d, bn - bd), e + (bn - bd))

\* the double nearest to (n / d) * 2^e, ties to even, for naturals n, d > 0
RoundRatio(n, d, e) == RoundShifted(n, BigBits(n), d, BigBits(d), e)

\* the double of an integer 0 <= k < 2^31
DblOfInt(k) == IF k = 0 THEN DblZero ELSE RoundRatio(BigOf(k), BigOf(1), 0)

\* x / y (y > 0)
DblDiv(x, y) ==
    IF x.m = BigOf(0) THEN DblZero ELSE RoundRatio(x.m, y.m, x.e - y.e)

\* x * c for an integer 0 < c < 128
DblMulInt(x, c) ==
    IF x.m = BigOf(0) THEN DblZero
    ELSE RoundRatio(BigMulSmall(x.m, c), BigOf(1), x.e)

\* x < y
DblLess(x, y) ==
    IF y.m = BigOf(0) THEN FALSE
    ELSE IF x.m = BigOf(0) THEN TRUE
    ELSE x.e < y.e \/ (x.e = y.e /\ BigLess(x.m, y.m))

\* Math.round(x): the integer nearest to x, a tie going up
MathRound(x) ==
    IF x.m = BigOf(0) \/ x.e < -54 THEN 0
    ELSE IF x.e >= 0 THEN BigToInt(BigShl(x.m, x.e))
    ELSE LET y == BigShr(x.m, (0 - x.e) - 1)
         IN  BigToInt(BigHalf(y)) + (IF BigOdd(y) THEN 1 ELSE 0)

(***************************************************************************)
(* The cell of a field in a row (lines 213-236).  Texts are JavaScript     *)
(* strings, sequences of character codes.                                  *)
(***************************************************************************)
\* a formatValue that shows nothing for a missing value
formatValueBlank(value) ==
    LET RECURSIVE Figures(_)
        Figures(n) == IF n < 10 THEN <<48 + n>>
                      ELSE Figures(n \div 10) \o <<48 + (n % 10)>>
    IN  IF value.t = "undefined" THEN EmptyString
        ELSE IF value.t = "number"
          THEN JsStr(IF value.n < 0 THEN <<45>> \o Figures(0 - value.n)
                     ELSE Figures(value.n))
        ELSE value

\* formatValue(value), for undefined, a number or a string: '-', or
\* String(value)
formatValue(value) ==
    LET RECURSIVE Digits(_)
        Digits(n) == IF n < 10 THEN <<48 + n>>
                     ELSE Digits(n \div 10) \o <<48 + (n % 10)>>
    IN  IF value.t = "undefined" THEN JsStr(<<45>>)
        ELSE IF value.t = "number"
          THEN JsStr(IF value.n < 0 THEN <<45>> \o Digits(0 - value.n)
                     ELSE Digits(value.n))
        ELSE value

\* the cell of the field name in the row at position index of the list:
\* formatValue(value), and the badge {Math.round(confidence * 100)}% that
\* `confidence && <Badge>` renders for a confidence other than undefined and
\* 0 (React renders the number 0 itself)
FieldCell(index, name) ==
    LET result == ResultsGet(results, OriginalIndex(index))
        confidence == result.confidence[name]
    IN  [text |-> formatValue(result.enrichments[name]),
         badge |-> IF confidence.t = "undefined" THEN JsUndefined
                   ELSE IF confidence.dbl = DblZero THEN JsStr(<<48>>)
                   ELSE JsStr(formatValue(JsNum(MathRound(
                                  DblMulInt(confidence.dbl, 100)))).s \o <<37>>)]

(***************************************************************************)
(* usePerformanceMonitoring.                                               *)
(***************************************************************************)
DEFAULT_THRESHOLDS ==
    [maxMemoryUsage |-> 500, maxRenderTime |-> 100, minProcessingSpeed |-> 1000,
     maxErrorRate |-> 5, minFrameRate |-> 30]

\* the hook is called without an argument
thresholds == DEFAULT_THRESHOLDS

\* the initial state of useState<PerformanceMetrics>, and what resetMetrics sets
InitialMetrics(time) ==
    [memoryUsage |-> 0, renderTime |-> 0, processingSpeed |-> 0, errorRate |-> 0,
     totalRows |-> 0, processedRows |-> 0, startTime |-> time,
     lastUpdateTime |-> time, frameRate |-> 0, networkRequests |-> 0,
     failedRequests |-> 0]

\* PerformanceIndicator: useState({memoryUsage: 0, renderTime: 0, rowsProcessed: 0})
InitialIndicator == [memoryUsage |-> 0, renderTime |-> 0, rowsProcessed |-> 0]

\* ResponsiveLayout: the defaults of the props currentStep and showSidebar
\* (lines 24-26) and the initial state (lines 29-31)
InitialLayout ==
    [currentStep |-> "upload", showSidebar |-> FALSE, sidebarOpen |-> FALSE,
     sidebarCollapsed |-> FALSE, settingsOpen |-> FALSE]

\* [...prev, alert] without the includes test
AddAlertAlways(prev, alert) == Append(prev, alert)

\* prev.includes(alert) ? prev : [...prev, alert]
AddAlert(prev, alert) ==
    IF \E i \in 1..Len(prev) : prev[i] = alert THEN prev ELSE Append(prev, alert)

MemoryAlert(memoryUsageMB) ==
    "High memory usage: " \o ToString(MathRound(memoryUsageMB))
        \o "MB (threshold: " \o ToString(thresholds.maxMemoryUsage) \o "MB)"

FrameRateAlert(fps) ==
    "Low frame rate: " \o ToString(fps)
        \o "fps (threshold: " \o ToString(thresholds.minFrameRate) \o "fps)"

RenderAlert(componentName, renderTime) ==
    "Slow render: " \o componentName \o " took " \o ToString(MathRound(renderTime))
        \o "ms (threshold: " \o ToString(thresholds.maxRenderTime) \o "ms)"

MeasureAlert(name, renderTime) ==
    "Performance measure \"" \o name \o "\" took "
        \o ToString(MathRound(renderTime)) \o "ms"

ProcessingAlert(processingSpeed) ==
    "Slow processing: " \o ToString(processingSpeed)
        \o " rows/min (threshold: " \o ToString(thresholds.minProcessingSpeed)
        \o " rows/min)"

ErrorRateAlert(errorRate) ==
    "High error rate: " \o ToString(errorRate)
        \o "% (threshold: " \o ToString(thresholds.maxErrorRate) \o "%)"

(***************************************************************************)
(* Inputs of the hook, and the quotients the hook computes from them.  The *)
(* quotients depend on the inputs only, so each is evaluated once, into a  *)
(* table indexed by the input.                                             *)
(***************************************************************************)
\* usedJSHeapSize: 400 MB, 500 MB, 500.4 MB (524707430 bytes), 600 MB
MemoryGauges == {400 * 1048576, 500 * 1048576, 524707430, 600 * 1048576}

\* render durations in microseconds: 50 ms, 100 ms, 150 ms
RenderMicros == {50000, 100000, 150000}

ComponentNames == {"VirtualTable"}

PerformanceEntries ==
    {[entryType |-> "measure", name |-> "render", micros |-> 150000],
     [entryType |-> "resource", name |-> "app.js", micros |-> 150000]}

\* (totalRows, processedRows, errors)
ProcessingInputs == {<<100, 0, 0>>, <<100, 50, 5>>, <<40, 3, 23>>}

\* the clock advances by 1.6 s or by one minute
TimeSteps == {1600, 60000}

\* the differences of two readings of the clock
ElapsedTimes == {a * 1600 + b * 60000 : a \in 0..MaxCalls, b \in 0..MaxCalls}

\* performance.memory.usedJSHeapSize / 1024 / 1024
MemoryUsageMB(used) ==
    DblDiv(DblDiv(DblOfInt(used), DblOfInt(1024)), DblOfInt(1024))

MemoryUsageMBOf == [used \in MemoryGauges |-> MemoryUsageMB(used)]

\* performance.now() - startTime, and entry.duration, in milliseconds
RenderTime(micros) == DblDiv(DblOfInt(micros), DblOfInt(1000))

RenderTimeOf ==
    [micros \in RenderMicros \cup {entry.micros : entry \in PerformanceEntries}
        |-> RenderTime(micros)]

\* a frame rate that is cut off instead of rounded
FrameRateTruncated(count, timeDiff) == (count * 1000) \div timeDiff

\* Math.round((frameCountRef.current * 1000) / timeDiff)
FrameRate(count, timeDiff) ==
    MathRound(DblDiv(DblOfInt(count * 1000), DblOfInt(timeDiff)))

FrameRateOf ==
    [count \in 1..(MaxCalls + 1) |->
        [timeDiff \in ElapsedTimes \ {0} |-> FrameRate(count, timeDiff)]]

\* elapsedMinutes > 0 ? Math.round(processedRows / elapsedMinutes) : 0
ProcessingSpeed(elapsedMs, processedRows) ==
    LET elapsedMinutes == DblDiv(DblOfInt(elapsedMs), DblOfInt(60000))
    IN  IF DblLess(DblZero, elapsedMinutes)
          THEN MathRound(DblDiv(DblOfInt(processedRows), elapsedMinutes))
          ELSE 0

ProcessingSpeedOf ==
    [elapsedMs \in ElapsedTimes |->
        [processedRows \in {input[2] : input \in ProcessingInputs} |->
            ProcessingSpeed(elapsedMs, processedRows)]]

\* totalRows > 0 ? Math.round((errors / totalRows) * 100) : 0
ErrorRate(totalRows, errors) ==
    IF totalRows > 0
      THEN MathRound(DblMulInt(DblDiv(DblOfInt(errors), DblOfInt(totalRows)), 100))
      ELSE 0

ErrorRateOf == [input \in ProcessingInputs |-> ErrorRate(input[1], input[3])]

\* the success rate of the dashboard, shown when networkRequests > 0:
\* Math.round(((networkRequests - failedRequests) / networkRequests) * 100)
SuccessRateOf ==
    [networkRequests \in 1..MaxCalls |->
        [failedRequests \in 0..networkRequests |->
            MathRound(DblMulInt(DblDiv(DblOfInt(networkRequests - failedRequests),
                                       DblOfInt(networkRequests)), 100))]]

\* the thresholds that are compared with unrounded measurements
MaxMemoryUsageMB == DblOfInt(thresholds.maxMemoryUsage)

MaxRenderTimeMs == DblOfInt(thresholds.maxRenderTime)

\* every operation of the hook counts towards MaxCalls and is noted in lastCall
Called(op, args) ==
    /\ calls < MaxCalls
    /\ calls' = calls + 1
    /\ lastCall' = [op |-> op, args |-> args, metrics |-> metrics,
                    alerts |-> alerts, now |-> now]

\* a sample that is averaged with the stored reading
measureMemoryUsageAveraging(hasGauge, used) ==
    /\ Called("measureMemoryUsage", <<hasGauge, used>>)
    /\ IF hasGauge
         THEN LET memoryUsageMB == MemoryUsageMBOf[used]
              IN  /\ metrics' = [metrics EXCEPT
                                    !.memoryUsage =
                                        (@ + MathRound(memoryUsageMB)) \div 2,
                                    !.lastUpdateTime = now]
                  /\ alerts' =
                        IF DblLess(MaxMemoryUsageMB, memoryUsageMB)
                          THEN AddAlert(alerts, MemoryAlert(memoryUsageMB))
                          ELSE alerts
         ELSE UNCHANGED <<metrics, alerts>>
    /\ UNCHANGED <<frameCountRef, lastFrameTimeRef, pendingFrames, now>>
    /\ UNCHANGED <<tableVars, indicator, mounted, layout>>

\* a poll that stores 0 when there is no gauge
measureMemoryUsageZeroing(hasGauge, used) ==
    /\ Called("measureMemoryUsage", <<hasGauge, used>>)
    /\ IF hasGauge
         THEN LET memoryUsageMB == MemoryUsageMBOf[used]
              IN  /\ metrics' = [metrics EXCEPT !.memoryUsage = MathRound(memoryUsageMB),
                                                !.lastUpdateTime = now]
                  /\ alerts' =
                        IF DblLess(MaxMemoryUsageMB, memoryUsageMB)
                          THEN AddAlert(alerts, MemoryAlert(memoryUsageMB))
                          ELSE alerts
         ELSE /\ metrics' = [metrics EXCEPT !.memoryUsage = 0,
                                            !.lastUpdateTime = now]
              /\ UNCHANGED alerts
    /\ UNCHANGED <<frameCountRef, lastFrameTimeRef, pendingFrames, now>>
    /\ UNCHANGED <<tableVars, indicator, mounted, layout>>

\* measureMemoryUsage(): hasGauge is 'memory' in performance, used is
\* performance.memory.usedJSHeapSize in bytes
measureMemoryUsage(hasGauge, used) ==
    /\ Called("measureMemoryUsage", <<hasGauge, used>>)
    /\ IF hasGauge
         THEN LET memoryUsageMB == MemoryUsageMBOf[used]
              IN  /\ metrics' = [metrics EXCEPT !.memoryUsage = MathRound(memoryUsageMB),
                                                !.lastUpdateTime = now]
                  /\ alerts' =
                        IF DblLess(MaxMemoryUsageMB, memoryUsageMB)
                          THEN AddAlert(alerts, MemoryAlert(memoryUsageMB))
                          ELSE alerts
         ELSE UNCHANGED <<metrics, alerts>>
    /\ UNCHANGED <<frameCountRef, lastFrameTimeRef, pendingFrames, now>>
    /\ UNCHANGED <<tableVars, indicator, mounted, layout>>

\* measureFrameRate(): a requested callback runs, and requests the next one
\* (line 104); React drops the updates that setMetrics and setAlerts are
\* given once the component is unmounted
measureFrameRate ==
    LET count == frameCountRef + 1
        timeDiff == now - lastFrameTimeRef
        fps == FrameRateOf[count][timeDiff]
    IN  /\ pendingFrames > 0
        /\ Called("measureFrameRate", <<>>)
        /\ pendingFrames' = (pendingFrames - 1) + 1
        /\ IF timeDiff >= 1000
             THEN /\ metrics' = IF mounted
                                  THEN [metrics EXCEPT !.frameRate = fps,
                                                       !.lastUpdateTime = now]
                                  ELSE metrics
                  /\ frameCountRef' = 0
                  /\ lastFrameTimeRef' = now
                  /\ alerts' = IF mounted /\ fps < thresholds.minFrameRate
                                 THEN AddAlert(alerts, FrameRateAlert(fps))
                                 ELSE alerts
             ELSE /\ frameCountRef' = count
                  /\ UNCHANGED <<metrics, lastFrameTimeRef, alerts>>
        /\ UNCHANGED now
        /\ UNCHANGED <<tableVars, indicator, mounted, layout>>

\* measureRenderTime(componentName, startTime): micros is
\* performance.now() - startTime in microseconds
measureRenderTime(componentName, micros) ==
    LET renderTime == RenderTimeOf[micros]
    IN  /\ Called("measureRenderTime", <<componentName, micros>>)
        /\ metrics' = [metrics EXCEPT !.renderTime = MathRound(renderTime),
                                      !.lastUpdateTime = now]
        /\ alerts' = IF DblLess(MaxRenderTimeMs, renderTime)
                       THEN AddAlert(alerts, RenderAlert(componentName, renderTime))
                       ELSE alerts
        /\ UNCHANGED <<frameCountRef, lastFrameTimeRef, pendingFrames, now>>
        /\ UNCHANGED <<tableVars, indicator, mounted, layout>>

\* the PerformanceObserver callback: entries.forEach(...) on <<metrics, alerts>>
RECURSIVE ObserveEntries(_, _)
ObserveEntries(state, entries) ==
    IF entries = <<>> THEN state
    ELSE LET entry == Head(entries)
             renderTime == RenderTimeOf[entry.micros]
             after ==
                 IF entry.entryType = "measure"
                   THEN <<[state[1] EXCEPT !.renderTime = MathRound(renderTime),
                                           !.lastUpdateTime = now],
                          IF DblLess(MaxRenderTimeMs, renderTime)
                            THEN AddAlert(state[2], MeasureAlert(entry.name, renderTime))
                            ELSE state[2]>>
                   ELSE state
         IN  ObserveEntries(after, Tail(entries))

PerformanceObserverCallback(entries) ==
    LET after == ObserveEntries(<<metrics, alerts>>, entries)
    IN  /\ Called("PerformanceObserver", entries)
        /\ metrics' = after[1]
        /\ alerts' = after[2]
        /\ UNCHANGED <<frameCountRef, lastFrameTimeRef, pendingFrames, now>>
        /\ UNCHANGED <<tableVars, indicator, mounted, layout>>

\* a call of the function updateProcessingMetrics that a render created: the
\* function reads the metrics.startTime of that render (line 132), and a
\* later render makes a new function when metrics.startTime has changed
\* (the dependencies of line 160)
updateProcessingMetricsFrom(startTime, totalRows, processedRows, errors) ==
    LET processingSpeed == ProcessingSpeedOf[now - startTime][processedRows]
        errorRate == ErrorRateOf[<<totalRows, processedRows, errors>>]
        slow == IF processingSpeed > 0
                     /\ processingSpeed < thresholds.minProcessingSpeed
                  THEN AddAlert(alerts, ProcessingAlert(processingSpeed))
                  ELSE alerts
    IN  /\ Called("updateProcessingMetrics", <<totalRows, processedRows, errors>>)
        /\ metrics' = [metrics EXCEPT !.totalRows = totalRows,
                                      !.processedRows = processedRows,
                                      !.processingSpeed = processingSpeed,
                                      !.errorRate = errorRate,
                                      !.lastUpdateTime = now]
        /\ alerts' = IF errorRate > thresholds.maxErrorRate
                       THEN AddAlert(slow, ErrorRateAlert(errorRate))
                       ELSE slow
        /\ UNCHANGED <<frameCountRef, lastFrameTimeRef, pendingFrames, now>>
        /\ UNCHANGED <<tableVars, indicator, mounted, layout>>

\* the function of the current render
updateProcessingMetrics(totalRows, processedRows, errors) ==
    updateProcessingMetricsFrom(metrics.startTime, totalRows, processedRows, errors)

\* the function of the first render, kept by a caller: the hook was mounted
\* at time 0
updateProcessingMetricsOfMount(totalRows, processedRows, errors) ==
    updateProcessingMetricsFrom(InitialMetrics(0).startTime,
                                totalRows, processedRows, errors)

\* a count of the requests made that leaves out the failed ones
trackNetworkRequestFailedApart(success) ==
    /\ Called("trackNetworkRequest", <<success>>)
    /\ metrics' = [metrics EXCEPT
                      !.networkRequests = IF success THEN @ + 1 ELSE @,
                      !.failedRequests = IF success THEN @ ELSE @ + 1,
                      !.lastUpdateTime = now]
    /\ UNCHANGED <<alerts, frameCountRef, lastFrameTimeRef, pendingFrames, now>>
    /\ UNCHANGED <<tableVars, indicator, mounted, layout>>

trackNetworkRequest(success) ==
    /\ Called("trackNetworkRequest", <<success>>)
    /\ metrics' = [metrics EXCEPT
                      !.networkRequests = @ + 1,
                      !.failedRequests = IF success THEN @ ELSE @ + 1,
                      !.lastUpdateTime = now]
    /\ UNCHANGED <<alerts, frameCountRef, lastFrameTimeRef, pendingFrames, now>>
    /\ UNCHANGED <<tableVars, indicator, mounted, layout>>

\* a reset that keeps the request counters
resetMetricsKeepingRequests ==
    /\ Called("resetMetrics", <<>>)
    /\ metrics' = [InitialMetrics(now) EXCEPT
                      !.networkRequests = metrics.networkRequests,
                      !.failedRequests = metrics.failedRequests]
    /\ alerts' = <<>>
    /\ UNCHANGED <<frameCountRef, lastFrameTimeRef, pendingFrames, now>>
    /\ UNCHANGED <<tableVars, indicator, mounted, layout>>

resetMetrics ==
    /\ Called("resetMetrics", <<>>)
    /\ metrics' = InitialMetrics(now)
    /\ alerts' = <<>>
    /\ UNCHANGED <<frameCountRef, lastFrameTimeRef, pendingFrames, now>>
    /\ UNCHANGED <<tableVars, indicator, mounted, layout>>

\* a clearAlert that also drops the alerts raised after the one removed
clearAlertAndLater(alertToRemove) ==
    /\ Called("clearAlert", <<alertToRemove>>)
    /\ alerts' = SubSeq(alerts, 1,
                        (CHOOSE i \in 1..Len(alerts) : alerts[i] = alertToRemove) - 1)
    /\ UNCHANGED <<metrics, frameCountRef, lastFrameTimeRef, pendingFrames, now>>
    /\ UNCHANGED <<tableVars, indicator, mounted, layout>>

clearAlert(alertToRemove) ==
    /\ Called("clearAlert", <<alertToRemove>>)
    /\ alerts' = SelectSeq(alerts, LAMBDA alert : alert # alertToRemove)
    /\ UNCHANGED <<metrics, frameCountRef, lastFrameTimeRef, pendingFrames, now>>
    /\ UNCHANGED <<tableVars, indicator, mounted, layout>>

clearAllAlerts ==
    /\ Called("clearAllAlerts", <<>>)
    /\ alerts' = <<>>
    /\ UNCHANGED <<metrics, frameCountRef, lastFrameTimeRef, pendingFrames, now>>
    /\ UNCHANGED <<tableVars, indicator, mounted, layout>>

\* the effect of lines 211-220 runs again (its dependencies measureMemoryUsage
\* or measureFrameRate are new functions after a change of
\* thresholds.maxMemoryUsage or thresholds.minFrameRate, or React mounts the
\* effects of the component a second time): the cleanup clears the memory
\* interval only, then the interval is set and a frame is requested
MonitoringEffect ==
    /\ Called("effect", <<>>)
    /\ pendingFrames' = pendingFrames + 1
    /\ UNCHANGED <<metrics, alerts, frameCountRef, lastFrameTimeRef, now>>
    /\ UNCHANGED <<tableVars, indicator, mounted, layout>>

\* the component is unmounted: React runs the cleanup of the effect of lines
\* 211-220, clearInterval(memoryInterval); the frame that was requested stays
\* requested
Unmount ==
    /\ mounted
    /\ Called("unmount", <<>>)
    /\ mounted' = FALSE
    /\ UNCHANGED <<metrics, alerts, frameCountRef, lastFrameTimeRef,
                   pendingFrames, now, indicator>>
    /\ UNCHANGED <<tableVars, layout>>

\* time passes
Tick(ms) ==
    /\ Called("Tick", <<ms>>)
    /\ now' = now + ms
    /\ UNCHANGED <<metrics, alerts, frameCountRef, lastFrameTimeRef,
                   pendingFrames>>
    /\ UNCHANGED <<tableVars, indicator, mounted, layout>>

\* exportMetrics(): the metrics, thresholds, alerts and status are written to
\* a file that the browser downloads; the state of the hook is only read
exportMetrics ==
    /\ Called("exportMetrics", <<>>)
    /\ UNCHANGED <<metrics, alerts, frameCountRef, lastFrameTimeRef,
                   pendingFrames, now>>
    /\ UNCHANGED <<tableVars, indicator, mounted, layout>>

\* the buttons of PerformanceDashboard in its full view (compact is false by
\* default): Reset (line 440), Export (line 447) and, in the alerts card,
\* Clear All (line 599)
DashboardButtons == {"Reset", "Export", "Clear All"}

\* a click on a button of the dashboard; the alerts card is rendered when
\* showAlerts (true by default) && alerts.length > 0
DashboardClick(button) ==
    IF button = "Reset" THEN resetMetrics
    ELSE IF button = "Export" THEN exportMetrics
    ELSE Len(alerts) > 0 /\ clearAllAlerts

\* PerformanceIndicator: the interval runs updateMetrics; prev is the state
\* the updater of setMetrics receives
PerformanceIndicatorPoll(hasGauge, used) ==
    /\ Called("PerformanceIndicator", <<hasGauge, used, indicator>>)
    /\ indicator' =
          IF hasGauge
            THEN [indicator EXCEPT !.memoryUsage = MathRound(MemoryUsageMBOf[used])]
            ELSE indicator
    /\ UNCHANGED <<metrics, alerts, frameCountRef, lastFrameTimeRef,
                   pendingFrames, now>>
    /\ UNCHANGED <<tableVars, mounted, layout>>

\* getPerformanceStatus(): issues.length
Issues ==
    (IF metrics.memoryUsage > thresholds.maxMemoryUsage THEN 1 ELSE 0)
    + (IF metrics.renderTime > thresholds.maxRenderTime THEN 1 ELSE 0)
    + (IF metrics.processingSpeed > 0
            /\ metrics.processingSpeed < thresholds.minProcessingSpeed THEN 1 ELSE 0)
    + (IF metrics.errorRate > thresholds.maxErrorRate THEN 1 ELSE 0)
    + (IF metrics.frameRate > 0
            /\ metrics.frameRate < thresholds.minFrameRate THEN 1 ELSE 0)

\* a status that needs more than three issues to be critical
getPerformanceStatusLenient ==
    IF Issues = 0 THEN "good" ELSE IF Issues <= 3 THEN "warning" ELSE "critical"

getPerformanceStatus ==
    IF Issues = 0 THEN "good" ELSE IF Issues <= 2 THEN "warning" ELSE "critical"

InitMonitor ==
    /\ metrics = InitialMetrics(0)
    /\ alerts = <<>>
    /\ frameCountRef = 0
    /\ lastFrameTimeRef = 0
    /\ pendingFrames = 1
    /\ now = 0
    /\ calls = 0
    /\ lastCall = [op |-> "mount", args |-> <<>>, metrics |-> InitialMetrics(0),
                   alerts |-> <<>>, now |-> 0]
    /\ mounted = TRUE
    /\ indicator = InitialIndicator
    /\ layout = InitialLayout

NextMonitor ==
    \/ \E used \in MemoryGauges : measureMemoryUsage(TRUE, used)
    \/ measureMemoryUsage(FALSE, 0)
    \/ measureFrameRate
    \/ \E componentName \in ComponentNames, micros \in RenderMicros :
          measureRenderTime(componentName, micros)
    \/ \E entry \in PerformanceEntries : PerformanceObserverCallback(<<entry>>)
    \/ \E first, second \in PerformanceEntries :
          PerformanceObserverCallback(<<first, second>>)
    \/ \E input \in ProcessingInputs :
          updateProcessingMetrics(input[1], input[2], input[3])
    \/ \E success \in BOOLEAN : trackNetworkRequest(success)
    \/ resetMetrics
    \/ \E i \in 1..Len(alerts) : clearAlert(alerts[i])
    \/ clearAllAlerts
    \/ MonitoringEffect
    \/ \E ms \in TimeSteps : Tick(ms)

(***************************************************************************)
(* The interactive table: mounted with a dataset of up to MaxRows rows and *)
(* an empty result store.  The values of this store order consistently, so *)
(* every engine sorts them alike; the engines are told apart in SpecSort.  *)
(***************************************************************************)
InitTable ==
    /\ rows \in {Dataset(n) : n \in 0..MaxRows}
    /\ emailColumn = "email"
    /\ results = EmptyResults(MaxRows)
    /\ currentProcessingRow = -1
    /\ sortConfig = NoSort
    /\ selectedRows = {}
    /\ sortedData = rows
    /\ scrolledTo = -1
    /\ lastEvent = NoEvent
    /\ engine = "binary"
    /\ InitMonitor

NextTable ==
    \/ \E rowIndex \in RowIndexes, result \in ResultInputs :
          SetResults(rowIndex, result)
    \/ \E marker \in -1..(Len(rows) - 1) : SetCurrentProcessingRow(marker)
    \/ \E column \in Columns : HeaderClick(column)
    \/ \E index \in RowIndexes, selected \in BOOLEAN :
          handleRowSelect(OriginalIndex(index), selected)
    \/ handleSelectAll
    \/ UserScroll

SpecTable == InitTable /\ [][NextTable]_vars

(***************************************************************************)
(* The table over a store that is shared by reference with the stream      *)
(* consumer and updated in place.                                          *)
(***************************************************************************)
NextShared ==
    \/ \E rowIndex \in RowIndexes, result \in ResultInputs :
          SetResultsInPlace(rowIndex, result)
    \/ \E marker \in -1..(Len(rows) - 1) : SetCurrentProcessingRow(marker)
    \/ \E column \in Columns : HeaderClick(column)
    \/ \E index \in RowIndexes, selected \in BOOLEAN :
          handleRowSelect(OriginalIndex(index), selected)
    \/ handleSelectAll
    \/ UserScroll

SpecShared == InitTable /\ [][NextShared]_vars

(***************************************************************************)
(* The table in its host: the parent replaces the dataset, the user works  *)
(* the checkboxes and clicks the buttons of the rows and of the footer.    *)
(* No result arrives.                                                      *)
(***************************************************************************)
NextHost ==
    \/ \E n \in 0..MaxRows : SetRows(Dataset(n))
    \/ \E column \in Columns : HeaderClick(column)
    \/ \E index \in RowIndexes, selected \in BOOLEAN :
          handleRowSelect(OriginalIndex(index), selected)
    \/ \E first, second \in RowIndexes \X BOOLEAN :
          handleRowSelectBatch(<<first, second>>)
    \/ handleSelectAll
    \/ \E index \in RowIndexes, button \in {"onRowClick", "onCopyRow"} :
          RowButtonClick(index, button)
    \/ \E button \in FooterButtons : FooterClick(button)

SpecHost == InitTable /\ [][NextHost]_vars

(***************************************************************************)
(* A run of three rows with one field: the stream delivers a completed     *)
(* result for row 1 (score 42, confidence 0.9), then an error result       *)
(* without enrichments for row 0; the user clicks headers and checkboxes.  *)
(***************************************************************************)
\* the rows a@x.com, b@x.com, c@x.com
ScenarioRows ==
    [i \in 1..3 |->
        [obj |-> i - 1,
         cells |-> <<<<"email", JsStr(<<96 + i, 64, 120, 46, 99, 111, 109>>)>>>>]]

ScenarioStream ==
    <<[rowIndex |-> 1,
       result |-> [RowEnrichmentResult("completed", JsNum(42)) EXCEPT
                      !.confidence =
                          [f \in FieldNames |->
                              [t |-> "double",
                               dbl |-> DblDiv(DblOfInt(9), DblOfInt(10))]]]],
      [rowIndex |-> 0, result |-> RowEnrichmentResult("error", JsUndefined)]>>

InitScenario ==
    /\ rows = ScenarioRows
    /\ emailColumn = "email"
    /\ results = EmptyResults(3)
    /\ currentProcessingRow = -1
    /\ sortConfig = NoSort
    /\ selectedRows = {}
    /\ sortedData = rows
    /\ scrolledTo = -1
    /\ lastEvent = NoEvent
    /\ engine \in Engines
    /\ InitMonitor

\* the updates of the stream arrive in their order
NextScenario ==
    \/ \E k \in 1..Len(ScenarioStream) :
          /\ \A j \in 1..(k - 1) :
                ResultsGet(results, ScenarioStream[j].rowIndex).present
          /\ ~ResultsGet(results, ScenarioStream[k].rowIndex).present
          /\ SetResults(ScenarioStream[k].rowIndex, ScenarioStream[k].result)
    \/ \E column \in Columns : HeaderClick(column)
    \/ \E index \in RowIndexes, selected \in BOOLEAN :
          handleRowSelect(OriginalIndex(index), selected)
    \/ handleSelectAll

SpecScenario == InitScenario /\ [][NextScenario]_vars

(***************************************************************************)
(* The sorting specification: the table mounted with MaxSortRows rows,     *)
(* with or without an emailColumn, and a result store that holds any of    *)
(* the values below for the field of each row; the user clicks column      *)
(* headers.                                                                *)
(***************************************************************************)
StrAbc == <<97, 98, 99>>

SortValues == {JsNum(3), JsNum(4), JsStr(StrAbc)}

InitSort ==
    /\ rows = Dataset(MaxSortRows)
    /\ emailColumn \in {"", "email"}
    /\ results \in [0..(MaxSortRows - 1) ->
                       {RowEnrichmentResult("completed", v) : v \in SortValues}]
    /\ currentProcessingRow = -1
    /\ sortConfig = NoSort
    /\ selectedRows = {}
    /\ sortedData = rows
    /\ scrolledTo = -1
    /\ lastEvent = NoEvent
    /\ engine \in Engines
    /\ InitMonitor

NextSort == \E key \in SortableKeys : handleSort(key)

SpecSort == InitSort /\ [][NextSort]_vars

(***************************************************************************)
(* The ordering specification: the table mounted with MaxOrderRows rows,   *)
(* any of which may lack the email cell, and a result store in which a row *)
(* has no result, a result without a value for the field (an error), or a  *)
(* result with one of the values below; the user clicks column headers.    *)
(***************************************************************************)
OrderValues == {JsNum(-5), JsNum(42), JsStr(StrAbc)}

OrderResults ==
    {NoResult, RowEnrichmentResult("error", JsUndefined)}
        \cup {RowEnrichmentResult("completed", v) : v \in OrderValues}

InitOrder ==
    /\ rows \in SparseDatasets(MaxOrderRows)
    /\ emailColumn = "email"
    /\ results \in [0..(MaxOrderRows - 1) -> OrderResults]
    /\ currentProcessingRow = -1
    /\ sortConfig = NoSort
    /\ selectedRows = {}
    /\ sortedData = rows
    /\ scrolledTo = -1
    /\ lastEvent = NoEvent
    /\ engine \in Engines
    /\ InitMonitor

NextOrder == \E key \in SortableKeys : handleSort(key)

SpecOrder == InitOrder /\ [][NextOrder]_vars

(***************************************************************************)
(* The monitoring hook, mounted at time 0, next to an empty table.         *)
(***************************************************************************)
InitHook ==
    /\ rows = Dataset(0)
    /\ emailColumn = ""
    /\ results = EmptyResults(0)
    /\ currentProcessingRow = -1
    /\ sortConfig = NoSort
    /\ selectedRows = {}
    /\ sortedData = rows
    /\ scrolledTo = -1
    /\ lastEvent = NoEvent
    /\ engine = "binary"
    /\ InitMonitor

SpecMonitor == InitHook /\ [][NextMonitor]_vars

(***************************************************************************)
(* The hook with the components and callers that use it: the dashboard     *)
(* with its buttons, the memory indicator, a poll of the memory gauge, and *)
(* a caller that reports the progress of a run, through the function of    *)
(* the current render or through the one it has kept since the mount.      *)
(***************************************************************************)
NextCallers ==
    \/ \E used \in MemoryGauges : measureMemoryUsage(TRUE, used)
    \/ measureMemoryUsage(FALSE, 0)
    \/ \E input \in ProcessingInputs :
          updateProcessingMetrics(input[1], input[2], input[3])
    \/ \E input \in ProcessingInputs :
          updateProcessingMetricsOfMount(input[1], input[2], input[3])
    \/ \E button \in DashboardButtons : DashboardClick(button)
    \/ \E used \in MemoryGauges : PerformanceIndicatorPoll(TRUE, used)
    \/ PerformanceIndicatorPoll(FALSE, 0)
    \/ \E ms \in TimeSteps : Tick(ms)

SpecCallers == InitHook /\ [][NextCallers]_vars

(***************************************************************************)
(* ResponsiveLayout: the step navigation of the header, and the sidebar    *)
(* and settings switches.                                                  *)
(***************************************************************************)
\* a navigation in which every step button is enabled
StepDisabledNever(step, currentStep) == FALSE

\* disabled of the button of a step (lines 71-97): 1. Upload has none
StepDisabled(step, currentStep) ==
    IF step = "setup" THEN currentStep = "upload"
    ELSE IF step = "enrichment"
      THEN currentStep = "upload" \/ currentStep = "setup"
    ELSE FALSE

\* a click on the button of a step: a disabled button gives no click;
\* onStepChange?.(step), with a callback that the host has given
StepButtonClick(step) ==
    /\ ~StepDisabled(step, layout.currentStep)
    /\ lastEvent' = [event |-> "step button", callback |-> "onStepChange",
                     arguments |-> <<step>>]
    /\ UNCHANGED <<rows, emailColumn, results, currentProcessingRow, sortConfig,
                   selectedRows, sortedData, scrolledTo, engine>>
    /\ UNCHANGED monitorVars

\* the host renders the layout with other props
RenderLayout(currentStep, showSidebar) ==
    /\ <<currentStep, showSidebar>> # <<layout.currentStep, layout.showSidebar>>
    /\ layout' = [layout EXCEPT !.currentStep = currentStep,
                                !.showSidebar = showSidebar]
    /\ lastEvent' = NoEvent
    /\ UNCHANGED <<rows, emailColumn, results, currentProcessingRow, sortConfig,
                   selectedRows, sortedData, scrolledTo, engine>>
    /\ UNCHANGED <<metrics, alerts, frameCountRef, lastFrameTimeRef,
                   pendingFrames, now, calls, lastCall, mounted, indicator>>

\* setSidebarOpen, setSidebarCollapsed or setSettingsOpen is called with
\* another value, by a button, the sheet or the settings modal; the buttons
\* that collapse and expand the sidebar are rendered when showSidebar
SetLayoutFlag(flag, value) ==
    /\ layout[flag] # value
    /\ flag = "sidebarCollapsed" => layout.showSidebar
    /\ layout' = [layout EXCEPT ![flag] = value]
    /\ lastEvent' = NoEvent
    /\ UNCHANGED <<rows, emailColumn, results, currentProcessingRow, sortConfig,
                   selectedRows, sortedData, scrolledTo, engine>>
    /\ UNCHANGED <<metrics, alerts, frameCountRef, lastFrameTimeRef,
                   pendingFrames, now, calls, lastCall, mounted, indicator>>

NextLayout ==
    \/ \E step \in {"upload", "setup", "enrichment"} : StepButtonClick(step)
    \/ \E currentStep \in {"upload", "setup", "enrichment"},
          showSidebar \in BOOLEAN : RenderLayout(currentStep, showSidebar)
    \/ \E flag \in {"sidebarOpen", "sidebarCollapsed", "settingsOpen"},
          value \in BOOLEAN : SetLayoutFlag(flag, value)

SpecLayout == InitHook /\ [][NextLayout]_vars

(***************************************************************************)
(* The hook and the memory indicator until and after the page that shows   *)
(* them is unmounted.  The intervals of the memory polls run while the     *)
(* components are mounted (their cleanups clear them); a requested frame   *)
(* runs whenever the browser paints.                                       *)
(***************************************************************************)
NextTeardown ==
    \/ mounted /\ \E used \in MemoryGauges : measureMemoryUsage(TRUE, used)
    \/ mounted /\ \E used \in MemoryGauges : PerformanceIndicatorPoll(TRUE, used)
    \/ measureFrameRate
    \/ Unmount
    \/ \E ms \in TimeSteps : Tick(ms)

SpecTeardown == InitHook /\ [][NextTeardown]_vars

(***************************************************************************)
(* Properties of the table (SpecTable, SpecSort).                          *)
(***************************************************************************)
\* C1: for every row index, over every step of the table (an update of the
\* stream, a change of the marker, or anything else), the status derived for
\* the row never goes back in the order pending -> processing -> {completed,
\* error, skipped}, and a terminal status is never followed by another status.
StatusNeverRegresses ==
    [][\A rowIndex \in RowIndexes :
          /\ StatusRank(getRowStatus(rowIndex)') >= StatusRank(getRowStatus(rowIndex))
          /\ (getRowStatus(rowIndex) \in TerminalStatuses
                => getRowStatus(rowIndex)' = getRowStatus(rowIndex))]_vars

\* the updates of the stream that carry the status processing
ProcessingUpdates == {result \in ResultInputs : result.status = "processing"}

\* C2: an update with status processing for a row whose stored result is
\* terminal is rejected: the store, and so the stored result of the row, and
\* the status shown for the row are what they were; this holds of what the
\* consumer computes in every reachable state and of every step that
\* delivers such an update.
StaleProcessingRejected ==
    /\ [](\A rowIndex \in RowIndexes, update \in ProcessingUpdates :
            (/\ ResultsGet(results, rowIndex).present
             /\ StatusOf(ResultsGet(results, rowIndex)) \in TerminalStatuses)
            => /\ ApplyUpdate(results, rowIndex, update) = results
               /\ RowStatus(ApplyUpdate(results, rowIndex, update),
                            currentProcessingRow, rowIndex)
                      = getRowStatus(rowIndex))
    /\ [][\A rowIndex \in RowIndexes, update \in ProcessingUpdates :
            (/\ ResultsGet(results, rowIndex).present
             /\ StatusOf(ResultsGet(results, rowIndex)) \in TerminalStatuses
             /\ SetResults(rowIndex, update))
            => /\ results' = results
               /\ getRowStatus(rowIndex)' = getRowStatus(rowIndex)]_vars

\* C2's case: a row holds a terminal result, the marker points at it, and the
\* consumer, handed a processing update for it, leaves the store as it is
StaleProcessingMet ==
    \E rowIndex \in RowIndexes, update \in ProcessingUpdates :
        /\ ResultsGet(results, rowIndex).present
        /\ StatusOf(ResultsGet(results, rowIndex)) \in {"error", "skipped"}
        /\ currentProcessingRow = rowIndex
        /\ ApplyUpdate(results, rowIndex, update) = results

\* the sort value of the row at position i (from 1) of the sorted data
SortValueAt(i) == SortValue(sortedData[i], rows, results, sortConfig, emailColumn)

\* C3: sorting is stable and deterministic: under every sort configuration,
\* rows with equal sort values stand in the sorted data in ascending order of
\* their original row index, and sorting the same rows, results and
\* configuration again gives the same order.
SortStableDeterministic ==
    /\ sortedData = SortedData(rows, results, sortConfig, emailColumn, engine)
    /\ \A i, j \in 1..Len(sortedData) :
          (/\ sortConfig # NoSort
           /\ i < j
           /\ SortValueAt(i) = SortValueAt(j))
          => IndexOf(rows, sortedData[i]) < IndexOf(rows, sortedData[j])

\* C4: handleSelectAll is a toggle over the whole dataset: the selection
\* becomes empty if it had as many members as there are rows, and otherwise
\* becomes all row indexes; so on a non-empty dataset one call from the empty
\* selection selects every row and a second call empties the selection.
SelectAllToggles ==
    [][handleSelectAll
         => /\ selectedRows' = IF Cardinality(selectedRows) = Len(rows)
                                 THEN {} ELSE RowIndexes
            /\ (Len(rows) > 0 /\ selectedRows = {}
                  => /\ selectedRows' = RowIndexes
                     /\ SelectAll(selectedRows', rows) = {})]_vars

\* C4's case: a sorted table of MaxRows rows with one row selected, where
\* select-all selects every row and, called again, none
SelectAllFromPartial ==
    /\ Len(rows) = MaxRows
    /\ Cardinality(selectedRows) = 1
    /\ sortConfig # NoSort
    /\ SelectAll(selectedRows, rows) = RowIndexes
    /\ SelectAll(SelectAll(selectedRows, rows), rows) = {}

\* C5: a step that changes the sort configuration, the result store or the
\* marker leaves the selection as it is, and after it every row index is
\* shown at exactly one position of the sorted data, selected there iff it
\* was selected before; the selection changes only in handleRowSelect and
\* handleSelectAll.
SelectionFrame ==
    [][/\ ((\/ sortConfig' # sortConfig
            \/ results' # results
            \/ currentProcessingRow' # currentProcessingRow)
           => /\ selectedRows' = selectedRows
              /\ \A rowIndex \in RowIndexes :
                    Cardinality({index \in RowIndexes :
                                    OriginalIndex(index)' = rowIndex}) = 1
              /\ \A index \in RowIndexes :
                    IsSelected(index)' = (OriginalIndex(index)' \in selectedRows))
       /\ (selectedRows' # selectedRows
           => \/ \E index \in RowIndexes, selected \in BOOLEAN :
                    handleRowSelect(OriginalIndex(index), selected)
              \/ handleSelectAll)]_vars

\* C5's case: a row is selected, results have arrived, the marker is set and
\* the sort shows the rows in another order than the dataset
SelectionUnderSort ==
    /\ selectedRows # {}
    /\ selectedRows # RowIndexes
    /\ sortConfig # NoSort
    /\ sortedData # rows
    /\ currentProcessingRow >= 0
    /\ \E rowIndex \in RowIndexes : ResultsGet(results, rowIndex).present

\* C11: a step that changes the marker to a row index that is not negative
\* makes the auto-scroll effect center a position of the list, and the row
\* shown at that position of the sorted data is the row of the marker, under
\* every sort configuration.
ScrollCentersSortedPosition ==
    [][(currentProcessingRow' # currentProcessingRow /\ currentProcessingRow' >= 0)
         => /\ scrolledTo' >= 0
            /\ OriginalIndex(scrolledTo)' = currentProcessingRow']_vars

\* C12: the effect calls scrollToItem only in a step that changes the marker,
\* and only when the new marker is not negative: no arrival of a result, sort
\* change, selection change, click or scroll of the user makes it scroll, and
\* a change of the marker to -1 makes no call.
ScrollOnlyOnMarkerChange ==
    [][scrolledTo' >= 0
         => /\ currentProcessingRow' # currentProcessingRow
            /\ currentProcessingRow' >= 0
            /\ scrolledTo' = currentProcessingRow']_vars

\* C12's case: the marker is on a row, and since it came there a step has
\* been taken without a scroll, in a sorted table with a result and a
\* selected row
NoScrollSinceMarker ==
    /\ currentProcessingRow >= 0
    /\ scrolledTo = -1
    /\ sortConfig # NoSort
    /\ selectedRows # {}
    /\ \E rowIndex \in RowIndexes : ResultsGet(results, rowIndex).present

\* C13 as stated: the status derived for a row index is the status field of
\* its result if the store holds one, whatever the marker says; otherwise
\* processing if the marker is the row index; otherwise pending.
StatusIsResultStatus ==
    \A rowIndex \in RowIndexes :
        getRowStatus(rowIndex) =
            (IF ResultsGet(results, rowIndex).present
               THEN ResultsGet(results, rowIndex).status
             ELSE IF currentProcessingRow = rowIndex THEN "processing"
             ELSE "pending")

\* C13, amended: the status derived for a row index is, if the store holds a
\* result for it, the status of that result, or completed when the result
\* carries no status, whatever the marker says; otherwise processing if the
\* marker is the row index; otherwise pending.
StatusDerivation ==
    \A rowIndex \in RowIndexes :
        getRowStatus(rowIndex) =
            (IF ResultsGet(results, rowIndex).present
               THEN (IF ResultsGet(results, rowIndex).status = "" THEN "completed"
                     ELSE ResultsGet(results, rowIndex).status)
             ELSE IF currentProcessingRow = rowIndex THEN "processing"
             ELSE "pending")

\* C13's case: the marker is on a row whose result says error, and another
\* row holds a result without a status
StatusOverMarker ==
    \E rowIndex, other \in RowIndexes :
        /\ currentProcessingRow = rowIndex
        /\ ResultsGet(results, rowIndex).present
        /\ ResultsGet(results, rowIndex).status = "error"
        /\ getRowStatus(rowIndex) = "error"
        /\ ResultsGet(results, other).present
        /\ ResultsGet(results, other).status = ""
        /\ getRowStatus(other) = "completed"

\* the row has no sort value under the sort configuration: no identity cell,
\* no result, or no enrichment for the field
Missing(row) ==
    IF sortConfig.key = "email"
      THEN (IF emailColumn # "" THEN GetCell(row, emailColumn)
            ELSE FirstValue(row)) = JsUndefined
      ELSE \/ ~ResultsGet(results, IndexOf(rows, row)).present
           \/ ResultsGet(results, IndexOf(rows, row)).enrichments[sortConfig.key]
                  = JsUndefined

\* the row has a sort value and it is not the empty string
HasValue(row) ==
    /\ ~Missing(row)
    /\ SortValue(row, rows, results, sortConfig, emailColumn) # EmptyString

\* C14: under an ascending sort by a sortable key every row without a sort
\* value stands before every row with a non-empty value, and under a
\* descending sort after every such row.
MissingSortsLowest ==
    sortConfig # NoSort
    => \A i, j \in 1..Len(sortedData) :
          (Missing(sortedData[i]) /\ HasValue(sortedData[j]))
          => IF sortConfig.direction = "asc" THEN i < j ELSE j < i

\* the other direction
Reversed(cfg) ==
    [cfg EXCEPT !.direction = IF cfg.direction = "asc" THEN "desc" ELSE "asc"]

\* C15: the comparison of the sort values of the rows is a total order: it
\* is antisymmetric and transitive, it puts one of two differing values
\* first, and the descending comparison of every pair is the reverse of the
\* ascending one.
ComparisonTotalOrder ==
    sortConfig # NoSort
    => LET c == Comparator(rows, results, sortConfig, emailColumn)
           reversed == Comparator(rows, results, Reversed(sortConfig), emailColumn)
       IN  \A i, j, k \in 1..Len(rows) :
              /\ c[i][j] = 0 - c[j][i]
              /\ (c[i][j] <= 0 /\ c[j][k] <= 0) => c[i][k] <= 0
              /\ SortValue(rows[i], rows, results, sortConfig, emailColumn)
                     # SortValue(rows[j], rows, results, sortConfig, emailColumn)
                  => c[i][j] # 0
              /\ reversed[i][j] = 0 - c[i][j]

\* C19: while the sort key is a field name, the displayed order is the sort
\* of the rows by the current contents of the result store, after every
\* arrival of a result.
OrderFollowsResults ==
    sortConfig.key \in FieldNames
    => sortedData = SortedData(rows, results, sortConfig, emailColumn, engine)

\* the actions column of the header
ActionsColumn == [key |-> "actions", sortable |-> FALSE]

\* C20: the sort configuration changes only in handleSort of a sortable
\* column: every step that changes it is handleSort(key) for the key of a
\* sortable column, and a click on the header of the actions column leaves
\* it as it is.
SortOnlyByHeaderClick ==
    [][/\ (sortConfig' # sortConfig
            => \E key \in SortableKeys : handleSort(key))
       /\ (HeaderClick(ActionsColumn) => sortConfig' = sortConfig)]_vars

\* C20's case: results have arrived, the marker is set and rows are selected,
\* and the table is still unsorted
UnsortedAfterActivity ==
    /\ sortConfig = NoSort
    /\ currentProcessingRow >= 0
    /\ selectedRows # {}
    /\ \E rowIndex \in RowIndexes : ResultsGet(results, rowIndex).present

(***************************************************************************)
(* Properties of the monitoring hook (SpecMonitor).                        *)
(***************************************************************************)
\* the operations that record a measurement
RecordingOps ==
    {"measureMemoryUsage", "measureFrameRate", "measureRenderTime",
     "PerformanceObserver", "updateProcessingMetrics", "trackNetworkRequest"}

\* a is an initial part of b
IsPrefix(a, b) == Len(a) <= Len(b) /\ \A i \in 1..Len(a) : a[i] = b[i]

\* C7: the alert list never holds the same string twice, and a recording
\* operation keeps the alerts that were there, in their places: one whose
\* breach message is already in the list leaves the list as it is.
AlertsDistinct ==
    /\ \A i, j \in 1..Len(alerts) : i # j => alerts[i] # alerts[j]
    /\ lastCall.op \in RecordingOps => IsPrefix(lastCall.alerts, alerts)

\* C7's case: a second memory sample of 600 MB against the threshold of
\* 500 MB, whose alert is already there, has left exactly that one alert
SecondBreachSameAlert ==
    /\ lastCall.op = "measureMemoryUsage"
    /\ lastCall.args = <<TRUE, 600 * 1048576>>
    /\ lastCall.alerts = <<MemoryAlert(MemoryUsageMBOf[600 * 1048576])>>
    /\ alerts = lastCall.alerts

\* the thresholds that the snapshot breaches
Breaches ==
    {name \in {"memory", "render", "speed", "errors", "frames"} :
        \/ name = "memory" /\ metrics.memoryUsage > thresholds.maxMemoryUsage
        \/ name = "render" /\ metrics.renderTime > thresholds.maxRenderTime
        \/ name = "speed" /\ metrics.processingSpeed > 0
                          /\ metrics.processingSpeed < thresholds.minProcessingSpeed
        \/ name = "errors" /\ metrics.errorRate > thresholds.maxErrorRate
        \/ name = "frames" /\ metrics.frameRate > 0
                           /\ metrics.frameRate < thresholds.minFrameRate}

\* C8: getPerformanceStatus is decided by the snapshot and the thresholds
\* alone: good without a breach, warning with one or two, critical with
\* three or more, where a metric equal to its threshold and a speed or frame
\* rate of 0 are no breach.
StatusCountsBreaches ==
    getPerformanceStatus =
        (IF Cardinality(Breaches) = 0 THEN "good"
         ELSE IF Cardinality(Breaches) <= 2 THEN "warning" ELSE "critical")

\* C8's case: memory, render time and speed are breached, the error rate
\* equals its threshold and no frame rate has been measured: critical
CriticalWithThreeBreaches ==
    /\ Breaches = {"memory", "render", "speed"}
    /\ metrics.errorRate = thresholds.maxErrorRate
    /\ metrics.frameRate = 0
    /\ getPerformanceStatus = "critical"

\* n / d rounded to the nearest integer, a half going up (n >= 0, d > 0)
RoundedQuotient(n, d) == (2 * n + d) \div (2 * d)

\* C9: after updateProcessingMetrics(totalRows, processedRows, errors),
\* processingSpeed is processedRows per elapsed minute since the start of the
\* run, rounded, or 0 when no time has elapsed, and errorRate is
\* 100 * errors / totalRows, rounded, or 0 when totalRows is 0.
ProcessingMetricsRounded ==
    lastCall.op = "updateProcessingMetrics"
    => LET totalRows == lastCall.args[1]
           processedRows == lastCall.args[2]
           errors == lastCall.args[3]
           elapsedMs == now - metrics.startTime
       IN  /\ metrics.processingSpeed =
                 (IF elapsedMs > 0
                    THEN RoundedQuotient(processedRows * 60000, elapsedMs) ELSE 0)
           /\ metrics.errorRate =
                 (IF totalRows > 0 THEN RoundedQuotient(100 * errors, totalRows)
                  ELSE 0)

\* C16: a frame tick adds one to the tick counter; if at least 1000 ms have
\* passed since the last flush, frameRate becomes count * 1000 / elapsed ms,
\* rounded, the counter becomes 0 and the flush time becomes now; otherwise
\* the counter keeps the added tick, and frameRate and the flush time stay.
FrameTickFlushes ==
    [][(calls' = calls + 1 /\ lastCall'.op = "measureFrameRate")
         => IF now - lastFrameTimeRef >= 1000
              THEN /\ metrics'.frameRate =
                         RoundedQuotient((frameCountRef + 1) * 1000,
                                         now - lastFrameTimeRef)
                   /\ frameCountRef' = 0
                   /\ lastFrameTimeRef' = now
              ELSE /\ frameCountRef' = frameCountRef + 1
                   /\ metrics'.frameRate = metrics.frameRate
                   /\ lastFrameTimeRef' = lastFrameTimeRef]_vars

\* C16's case: the third tick, 1600 ms after the mount, has flushed: 3000 /
\* 1600 = 1.875 frames per second, published as 2
FrameRateFlushed ==
    /\ lastCall.op = "measureFrameRate"
    /\ now = 1600
    /\ metrics.frameRate = 2
    /\ frameCountRef = 0
    /\ lastFrameTimeRef = now

\* C17: at most one frame callback is pending at any time.
SingleFrameChain == pendingFrames <= 1

\* C18: no operation but resetMetrics lowers networkRequests, failedRequests
\* or processedRows, and trackNetworkRequest(success) adds exactly 1 to
\* networkRequests and 1 to failedRequests iff success is false.
CountersMonotone ==
    /\ lastCall.op # "resetMetrics"
       => /\ metrics.networkRequests >= lastCall.metrics.networkRequests
          /\ metrics.failedRequests >= lastCall.metrics.failedRequests
          /\ metrics.processedRows >= lastCall.metrics.processedRows
    /\ lastCall.op = "trackNetworkRequest"
       => /\ metrics.networkRequests = lastCall.metrics.networkRequests + 1
          /\ metrics.failedRequests =
                lastCall.metrics.failedRequests
                    + (IF lastCall.args[1] THEN 0 ELSE 1)

\* the operations through which data arrives
DataOps ==
    {"measureMemoryUsage", "measureFrameRate", "measureRenderTime",
     "updateProcessingMetrics", "trackNetworkRequest"}

\* C10: after resetMetrics the nine measurements are 0, the start of the run
\* is the time of the call and the alert list is empty; and no operation
\* through which data arrives resets anything: it leaves the start of the
\* run, the alerts present and the count of requests made and failed.
ResetOnlyExplicit ==
    /\ lastCall.op = "resetMetrics"
       => /\ metrics.memoryUsage = 0
          /\ metrics.renderTime = 0
          /\ metrics.processingSpeed = 0
          /\ metrics.errorRate = 0
          /\ metrics.totalRows = 0
          /\ metrics.processedRows = 0
          /\ metrics.frameRate = 0
          /\ metrics.networkRequests = 0
          /\ metrics.failedRequests = 0
          /\ metrics.startTime = lastCall.now
          /\ alerts = <<>>
    /\ lastCall.op \in DataOps
       => /\ metrics.startTime = lastCall.metrics.startTime
          /\ IsPrefix(lastCall.alerts, alerts)
          /\ metrics.networkRequests >= lastCall.metrics.networkRequests
          /\ metrics.failedRequests >= lastCall.metrics.failedRequests

\* C10's case: a reset at a later time than the mount, of a hook that had
\* counted a failed request and raised an alert
ResetAfterActivity ==
    /\ lastCall.op = "resetMetrics"
    /\ lastCall.now > 0
    /\ lastCall.metrics.failedRequests > 0
    /\ lastCall.alerts # <<>>
    /\ metrics.startTime = lastCall.now

\* C23: a memory sample of m bytes stores m / 2^20 MB, rounded, whatever the
\* stored reading was; if m is above thresholds.maxMemoryUsage MB the memory
\* alert is in the list, appended unless it was there, and otherwise the
\* alert list is the one before the sample.
MemorySampleReplaces ==
    lastCall.op = "measureMemoryUsage" /\ lastCall.args[1]
    => LET used == lastCall.args[2]
           alert == MemoryAlert(MemoryUsageMBOf[used])
           present == \E i \in 1..Len(lastCall.alerts) : lastCall.alerts[i] = alert
       IN  /\ metrics.memoryUsage = RoundedQuotient(used, 1048576)
           /\ used > thresholds.maxMemoryUsage * 1048576
              => alerts = (IF present THEN lastCall.alerts
                           ELSE Append(lastCall.alerts, alert))
           /\ used <= thresholds.maxMemoryUsage * 1048576
              => alerts = lastCall.alerts

\* C23's case: a sample of 400 MB after a stored reading of 600 MB, whose
\* alert stays
SampleAfterHigherReading ==
    /\ lastCall.op = "measureMemoryUsage"
    /\ lastCall.args = <<TRUE, 400 * 1048576>>
    /\ lastCall.metrics.memoryUsage = 600
    /\ metrics.memoryUsage = 400
    /\ alerts = <<MemoryAlert(MemoryUsageMBOf[600 * 1048576])>>

\* C24: a poll of the memory on a host without the gauge completes and leaves
\* the metrics (memoryUsage among them) and the alert list as they were, in
\* the hook and in the memory indicator; before any poll memoryUsage is 0.
NoGaugeNoChange ==
    /\ lastCall.op = "measureMemoryUsage" /\ ~lastCall.args[1]
       => metrics = lastCall.metrics /\ alerts = lastCall.alerts
    /\ lastCall.op = "PerformanceIndicator" /\ ~lastCall.args[1]
       => indicator = lastCall.args[3]
    /\ calls = 0 => metrics.memoryUsage = 0 /\ indicator.memoryUsage = 0

\* C24's case: a poll without the gauge, after a reading of 600 MB and its
\* alert
PollWithoutGauge ==
    /\ lastCall.op = "measureMemoryUsage"
    /\ ~lastCall.args[1]
    /\ metrics.memoryUsage = 600
    /\ Len(alerts) = 1
    /\ indicator.memoryUsage = 600

\* C25: no click on a button of the dashboard changes the metrics or the
\* alert list.
DashboardReadOnly ==
    [][(\E button \in DashboardButtons : DashboardClick(button))
       => metrics' = metrics /\ alerts' = alerts]_vars

\* C28: once resetMetrics has restarted the run, updateProcessingMetrics
\* stores the speed of the rows processed over the time since that reset,
\* whichever render the function that the caller invokes comes from.
ResetIsCutover ==
    lastCall.op = "updateProcessingMetrics" /\ metrics.startTime > 0
    => metrics.processingSpeed =
          ProcessingSpeedOf[now - metrics.startTime][lastCall.args[2]]

(***************************************************************************)
(* Properties of the table in its host (SpecHost, SpecSort).               *)
(***************************************************************************)
\* C21: every member of the selection is the index of a row of the dataset
\* the table holds, also after the dataset was replaced by a shorter one.
SelectionWithinRows == selectedRows \subseteq RowIndexes

\* C22: the displayed order holds every row of the dataset exactly once, no
\* two positions of the list have the same rowIndex, and the rowIndex of a
\* displayed row, which keys its result, status and selection and is passed
\* to onRowClick and onCopyRow, is the position of that row in the dataset.
RowIndexIsOriginalPosition ==
    /\ Len(sortedData) = Len(rows)
    /\ \A rowIndex \in RowIndexes :
          Cardinality({index \in RowIndexes :
                          Row(index).originalIndex = rowIndex}) = 1
    /\ \A index \in RowIndexes :
          LET shown == Row(index)
          IN  /\ shown.originalIndex \in RowIndexes
              /\ rows[shown.originalIndex + 1] = sortedData[index + 1]
              /\ rows[shown.originalIndex + 1].obj = shown.originalIndex
              /\ shown.status =
                    StatusOf(ResultsGet(results, sortedData[index + 1].obj))
              /\ shown.isSelected = (sortedData[index + 1].obj \in selectedRows)

\* C22's case: a sort by the field shows the row at position 0 of the
\* dataset at the last position of the list, and the row at position 1 first
SortMovedFirstRow ==
    /\ sortConfig = [key |-> "score", direction |-> "asc"]
    /\ OriginalIndex(Len(rows) - 1) = 0
    /\ OriginalIndex(0) = 1

\* C27: a click on Export Selected or Copy Selected invokes a callback of the
\* host with the selection of that moment.
FooterInvokesCallback ==
    lastEvent.event \in FooterButtons
    => /\ lastEvent.callback # "none"
       /\ lastEvent.arguments = <<selectedRows>>

\* C29: handleSort(key) flips the direction when the sort has this key (asc
\* to desc, desc to asc) and otherwise sets {key, asc}; a sort that is set
\* is never unset; and two clicks on the header of the sorted column give
\* the sort there was before them.
SortFlipsOrStarts ==
    [][/\ \A key \in SortableKeys :
             handleSort(key)
             => /\ sortConfig # NoSort /\ sortConfig.key = key
                   /\ sortConfig.direction = "asc"
                   => sortConfig' = [key |-> key, direction |-> "desc"]
                /\ sortConfig # NoSort /\ sortConfig.key = key
                   /\ sortConfig.direction = "desc"
                   => sortConfig' = [key |-> key, direction |-> "asc"]
                /\ (sortConfig = NoSort \/ sortConfig.key # key)
                   => sortConfig' = [key |-> key, direction |-> "asc"]
       /\ sortConfig # NoSort => sortConfig' # NoSort
       /\ \A key \in SortableKeys :
             sortConfig # NoSort /\ sortConfig.key = key
             => setSortConfig(setSortConfig(sortConfig, key), key) = sortConfig]_vars

\* C29's case: the second click on the header of the field column
SortedDescending == sortConfig = [key |-> "score", direction |-> "desc"]

\* C30: handleRowSelect(rowIndex, selected) makes rowIndex a member iff
\* selected and leaves every other member; of two toggles handled before a
\* render both take effect, the later one deciding for a row they share, and
\* a toggle repeated gives what the one toggle gives.
TogglesAllTakeEffect ==
    [][/\ \A rowIndex \in RowIndexes, selected \in BOOLEAN :
             handleRowSelect(rowIndex, selected)
             => /\ (rowIndex \in selectedRows') = selected
                /\ \A other \in (selectedRows \cup selectedRows') \ {rowIndex} :
                      (other \in selectedRows') = (other \in selectedRows)
       /\ \A first, second \in RowIndexes \X BOOLEAN :
             handleRowSelectBatch(<<first, second>>)
             => /\ (second[1] \in selectedRows') = second[2]
                /\ first[1] # second[1]
                   => (first[1] \in selectedRows') = first[2]
                /\ \A other \in (selectedRows \cup selectedRows')
                                   \ {first[1], second[1]} :
                      (other \in selectedRows') = (other \in selectedRows)
                /\ first = second
                   => selectedRows' = (IF first[2] THEN selectedRows \cup {first[1]}
                                       ELSE selectedRows \ {first[1]})]_vars

\* C30's case: the checkboxes of row 0 and of row 1 were ticked before a
\* render, and both rows are selected
BothTogglesApplied ==
    /\ lastEvent.event = "checkboxes"
    /\ lastEvent.arguments = <<<<0, TRUE>>, <<1, TRUE>>>>
    /\ selectedRows = {0, 1}

\* C26: when the stream of the run has delivered its two results, row 0 has
\* the status error and its score cell shows '-' without a badge, row 1 has
\* the status completed and shows '42' with the badge '90%', row 2 has the
\* status pending and shows '-'; and under the sort by score ascending the
\* list shows row 0, then row 2, then row 1.
ScenarioOutcome ==
    (\A k \in 1..Len(ScenarioStream) :
        ResultsGet(results, ScenarioStream[k].rowIndex).present)
    => LET CellOf(rowIndex) ==
               FieldCell(CHOOSE index \in RowIndexes :
                            OriginalIndex(index) = rowIndex, "score")
       IN  /\ getRowStatus(0) = "error"
           /\ CellOf(0) = [text |-> JsStr(<<45>>), badge |-> JsUndefined]
           /\ getRowStatus(1) = "completed"
           /\ CellOf(1) = [text |-> JsStr(<<52, 50>>),
                           badge |-> JsStr(<<57, 48, 37>>)]
           /\ getRowStatus(2) = "pending"
           /\ CellOf(2) = [text |-> JsStr(<<45>>), badge |-> JsUndefined]
           /\ sortConfig = [key |-> "score", direction |-> "asc"]
              => <<OriginalIndex(0), OriginalIndex(1), OriginalIndex(2)>>
                    = <<0, 2, 1>>

\* C26's case: both results have arrived and the table is sorted by score
\* ascending
ScenarioSortedByScore ==
    /\ ResultsGet(results, 0).present
    /\ ResultsGet(results, 1).present
    /\ sortConfig = [key |-> "score", direction |-> "asc"]
    /\ sortedData # rows

\* C31: the select-all checkbox of the header is checked exactly when the
\* dataset has rows and the selection is the set of all their indexes,
\* whatever toggles, select-alls and replacements of the dataset came before.
SelectAllCheckedIffAll ==
    SelectAllChecked <=> (Len(rows) > 0 /\ selectedRows = RowIndexes)

(***************************************************************************)
(* Further properties of the monitoring hook.                              *)
(***************************************************************************)
\* C32: an operation other than clearAlert, clearAllAlerts and resetMetrics
\* leaves the alerts that were there in their places, a recording operation
\* among them, also when the metric is back within its threshold;
\* clearAlert(a) removes a alone and keeps the others in their order,
\* clearAllAlerts empties the list, and both leave the metrics as they were.
AlertsSticky ==
    /\ lastCall.op \notin {"clearAlert", "clearAllAlerts", "resetMetrics"}
       => IsPrefix(lastCall.alerts, alerts)
    /\ lastCall.op \in RecordingOps => IsPrefix(lastCall.alerts, alerts)
    /\ lastCall.op = "clearAlert"
       => /\ metrics = lastCall.metrics
          /\ \E i \in 1..Len(lastCall.alerts) :
                /\ lastCall.alerts[i] = lastCall.args[1]
                /\ alerts = [j \in 1..(Len(lastCall.alerts) - 1) |->
                                IF j < i THEN lastCall.alerts[j]
                                ELSE lastCall.alerts[j + 1]]
    /\ lastCall.op = "clearAllAlerts"
       => metrics = lastCall.metrics /\ alerts = <<>>

\* C32's case: a memory sample within the threshold has left the alert of an
\* earlier sample in the list, and the status is good
GoodStatusWithAlert ==
    /\ lastCall.op = "measureMemoryUsage"
    /\ lastCall.args = <<TRUE, 400 * 1048576>>
    /\ alerts = <<MemoryAlert(MemoryUsageMBOf[600 * 1048576])>>
    /\ getPerformanceStatus = "good"

\* C33: the requests that failed are never more than the requests made, and
\* neither count is negative; so the success rate that the dashboard shows
\* when a request was made is between 0 and 100.
FailedWithinRequests ==
    /\ 0 <= metrics.failedRequests
    /\ metrics.failedRequests <= metrics.networkRequests
    /\ metrics.networkRequests > 0
       => LET rate == SuccessRateOf[metrics.networkRequests][metrics.failedRequests]
          IN  0 <= rate /\ rate <= 100

\* C33's case: three requests were made and two of them failed; the rate
\* shown is 33
TwoOfThreeFailed ==
    /\ metrics.networkRequests = 3
    /\ metrics.failedRequests = 2
    /\ SuccessRateOf[3][2] = 33
    /\ lastCall.op = "trackNetworkRequest"

\* C34: once the component is unmounted, no poll of the memory and no frame
\* tick runs: the only steps are the passing of time.
NoTaskAfterTeardown == ~mounted => lastCall.op \in {"unmount", "Tick"}

\* C35: the first frame rate published after resetMetrics is the rate of
\* ticks counted since the reset over the time since the reset (the time of
\* the reset is metrics.startTime), and no other step changes a frame rate
\* of 0.
FirstRateAfterReset ==
    [][LET publishes == /\ calls' = calls + 1
                        /\ lastCall'.op = "measureFrameRate"
                        /\ now - lastFrameTimeRef >= 1000
       IN  /\ publishes /\ lastFrameTimeRef < metrics.startTime
              => /\ now > metrics.startTime
                 /\ \E ticks \in 1..(frameCountRef + 1) :
                       metrics'.frameRate =
                           RoundedQuotient(ticks * 1000, now - metrics.startTime)
           /\ metrics.frameRate = 0 /\ ~publishes
              => metrics'.frameRate = 0]_vars

\* C36: when a memory sample or a render time has added its alert to the
\* list, the status counts that metric as breached on the metrics stored:
\* the stored memoryUsage is above thresholds.maxMemoryUsage, the stored
\* renderTime above thresholds.maxRenderTime.
AlertMeansBreach ==
    /\ lastCall.op = "measureMemoryUsage" /\ Len(alerts) > Len(lastCall.alerts)
       => metrics.memoryUsage > thresholds.maxMemoryUsage
    /\ lastCall.op = "measureRenderTime" /\ Len(alerts) > Len(lastCall.alerts)
       => metrics.renderTime > thresholds.maxRenderTime

(***************************************************************************)
(* Properties of the layout (SpecLayout).                                  *)
(***************************************************************************)
\* the place of a step in the order upload, setup, enrichment
StepPlace(step) ==
    IF step = "upload" THEN 1 ELSE IF step = "setup" THEN 2 ELSE 3

\* C37: the button of a step is enabled only if the step is not later than
\* currentStep; so the header calls onStepChange with no step later than
\* currentStep, and with upload alone while currentStep is upload.
StepsBackOnly ==
    /\ \A step \in {"upload", "setup", "enrichment"} :
          ~StepDisabled(step, layout.currentStep)
          => StepPlace(step) <= StepPlace(layout.currentStep)
    /\ lastEvent.callback = "onStepChange"
       => /\ StepPlace(lastEvent.arguments[1]) <= StepPlace(layout.currentStep)
          /\ layout.currentStep = "upload" => lastEvent.arguments = <<"upload">>

\* C37's case: at the step enrichment the button of setup was clicked
BackFromEnrichment ==
    /\ layout.currentStep = "enrichment"
    /\ lastEvent.callback = "onStepChange"
    /\ lastEvent.arguments = <<"setup">>

====
